---------------------------- MODULE Spec2Model ----------------------------
(***************************************************************************)
(* Beanaries build-time tracker: the incremental sync of the CI            *)
(* connectors (apps/backend/src/scrapers), the batch drivers and the       *)
(* scheduler (apps/backend/src/scheduler.py, src/cli.py, src/cli/scrape.py)*)
(* and the scheduler's trigger surface (src/api/scheduler.py).             *)
(*                                                                         *)
(* Time is counted in whole hours.  Null (0) stands for Python None / SQL  *)
(* NULL; every real identifier and timestamp is >= 1.                      *)
(***************************************************************************)
EXTENDS Integers, Sequences, FiniteSets, TLC

VARIABLES
    cfg,        \* project_configs rows: config id -> record
    remote,     \* config id -> what the remote platform currently serves
    builds,     \* the committed rows of the builds table, in insert order
    now,        \* wall clock, hours
    scanOrder,  \* how the database orders rows that tie in ORDER BY
    last,       \* observation: what the most recent call did
    synced,     \* observation: config id -> arguments of its last completed call
    pass,       \* the batch or scheduler pass in progress
    session,    \* rows added to the pass's database session and not yet committed
    api,        \* POST /scheduler/trigger: response, queued background task, its result
    sched,      \* ScraperScheduler and its APScheduler job
    inflight    \* the configurations some task is inside scrape_config for

vars == <<cfg, remote, builds, now, scanOrder, last, synced, pass, session, api, sched, inflight>>

\* The variables the sync of one configuration leaves alone.
passVars == <<pass, session, api, sched, inflight>>

-----------------------------------------------------------------------------
(* Bounds *)

NumConfigs == 2     \* rows of project_configs
NumRuns    == 3     \* distinct remote run / build / revision identifiers
NumJobs    == 2     \* jobs of one GitHub Actions run
MaxLen     == 3     \* items a remote serves
MaxPage    == 2     \* items the paginated endpoints return per request

Null == 0

Configs == 1 .. NumConfigs

-----------------------------------------------------------------------------
(* models.py *)

DataSource == {"github_actions", "luci", "buildkite", "koji", "obs",
               "gitlab_ci", "local_build", "manual"}

\* The sources that have a scraper class with scrape_config.
Connectors == {"github_actions", "luci", "buildkite", "gitlab_ci", "koji", "obs"}

\* The mapped attributes of ProjectConfig that the callers read.  The class
\* has neither scraper_config nor workflow_file (they moved to the per-source
\* config tables), so reading either raises AttributeError.
ProjectConfigAttrs == {"id", "project_id", "data_source", "platform", "branch",
                       "is_enabled", "check_interval_hours", "last_checked_at",
                       "github_actions_config", "luci_config", "buildkite_config",
                       "koji_config", "obs_config"}

\* A row of the builds table, reduced to the columns the sync reads or writes
\* for de-duplication: build_id and srcmd5 are the scraper_metadata keys.
Build(p, src, run, job, bid, md5, ts) ==
    [project_id |-> p, data_source |-> src, workflow_run_id |-> run,
     job_id |-> job, build_id |-> bid, srcmd5 |-> md5, started_at |-> ts]

-----------------------------------------------------------------------------
(* Generic helpers *)

Min(S) == CHOOSE x \in S : \A y \in S : x <= y
Max(S) == CHOOSE x \in S : \A y \in S : x >= y

RECURSIVE Reverse(_)
Reverse(s) == IF s = <<>> THEN <<>> ELSE Append(Reverse(Tail(s)), Head(s))

Prefix(s, n) == SubSeq(s, 1, IF n < Len(s) THEN n ELSE Len(s))

\* s[-n:] for n > 0
Suffix(s, n) == IF n >= Len(s) THEN s ELSE SubSeq(s, Len(s) - n + 1, Len(s))

Rows(seq) == {seq[i] : i \in 1 .. Len(seq)}

-----------------------------------------------------------------------------
(* The "most recent" query every scrape_config issues in only_new mode:     *)
(*   select(<column>).where(...).order_by(Build.started_at.desc()).limit(1) *)
(* The default database is PostgreSQL (config.py), where NULL sorts first  *)
(* in descending order.  Rows that tie are returned in scan order, which   *)
(* SQL leaves open: scanOrder fixes it for one behaviour.                  *)

Outranks(a, b) ==
    \/ a.started_at = Null /\ b.started_at # Null
    \/ a.started_at # Null /\ b.started_at # Null /\ a.started_at > b.started_at

TopRow(rows, idx, order) ==
    LET top == {i \in idx : \A j \in idx : ~Outranks(rows[j], rows[i])}
    IN  IF order = "first" THEN Min(top) ELSE Max(top)

\* The rows the marker query of each connector ranges over.
MarkerCandidates(kind, p, rows) ==
    {i \in 1 .. Len(rows) :
        /\ rows[i].project_id = p
        /\ IF kind = "github_actions"
           THEN rows[i].workflow_run_id # Null
           ELSE rows[i].data_source = kind}

MarkerColumn(kind, row) ==
    CASE kind = "github_actions" -> row.workflow_run_id
      [] kind = "obs"            -> row.srcmd5
      [] OTHER                   -> row.build_id

\* most_recent_*: Null when only_new is off, when no row matches, or when the
\* selected column is NULL.
MostRecent(kind, p, rows, only_new, order) ==
    LET idx == MarkerCandidates(kind, p, rows)
    IN  IF ~only_new \/ idx = {} THEN Null
        ELSE MarkerColumn(kind, rows[TopRow(rows, idx, order)])

-----------------------------------------------------------------------------
(* Remote platforms.  A remote item is                                     *)
(*   [run, jobs, ts, commit]                                               *)
(* run: the run / build / pipeline id or the OBS srcmd5; jobs: how many    *)
(* jobs the run has (GitHub Actions; job ids are 1 .. jobs), 0 elsewhere;  *)
(* ts: the item's start time or Null; commit: whether the item carries     *)
(* commit information.  Every endpoint but the OBS history lists the       *)
(* newest item first; the OBS _history lists revisions oldest first.       *)

\* One page of an offset-paginated listing.
ServerPage(stream, off, size) ==
    IF off >= Len(stream) THEN <<>>
    ELSE SubSeq(stream, off + 1, IF off + size < Len(stream) THEN off + size ELSE Len(stream))

Min2_Larger(a, b) == IF a < b THEN b ELSE a

\* min(page_size, remaining, ...) of the paginated fetches.
Min2(a, b) == IF a < b THEN a ELSE b

\* LUCIScraper.search_builds: token pagination; the server hands out a next
\* page token while items remain.  `pages` lists the length of every page
\* requested, in order.
RECURSIVE SearchBuilds(_, _, _, _)
SearchBuilds(stream, limit, all, pages) ==
    IF limit # Null /\ Len(all) >= limit THEN [items |-> all, pages |-> pages]
    ELSE LET size   == IF limit = Null THEN MaxPage ELSE Min2(MaxPage, limit - Len(all))
             got    == ServerPage(stream, Len(all), size)
             token  == Len(all) + Len(got) < Len(stream)
             all2   == all \o got
             pages2 == Append(pages, Len(got))
         IN  IF ~token \/ Len(got) = 0
             THEN [items |-> all2, pages |-> pages2]
             ELSE SearchBuilds(stream, limit, all2, pages2)

\* GitLabCIScraper.search_pipelines and BuildkiteScraper.list_builds: page
\* numbers; the server serves page n of size s from offset (n-1)*s.
RECURSIVE PagedList(_, _, _, _, _)
PagedList(stream, limit, all, pages, page) ==
    IF limit # Null /\ Len(all) >= limit THEN [items |-> all, pages |-> pages]
    ELSE LET size == IF limit = Null THEN MaxPage ELSE Min2(MaxPage, limit - Len(all))
             got  == ServerPage(stream, (page - 1) * size, size)
         IN  IF Len(got) = 0 THEN [items |-> all, pages |-> Append(pages, 0)]
             ELSE IF Len(got) < size
                  THEN [items |-> all \o got, pages |-> Append(pages, Len(got))]
                  ELSE PagedList(stream, limit, all \o got, Append(pages, Len(got)), page + 1)

\* BuildkiteScraper.list_builds_from_web: the public build list, page by page,
\* at most scroll_count pages; entries without a commit link are dropped and
\* the list view has no timestamps.
scroll_count == 5

WebEntries(page) ==
    SelectSeq(page, LAMBDA it : it.commit)

WebBuild(it) == [it EXCEPT !.ts = Null]

RECURSIVE MapSeq(_, _)
MapSeq(Op(_), s) == IF s = <<>> THEN <<>> ELSE <<Op(Head(s))>> \o MapSeq(Op, Tail(s))

RECURSIVE ListBuildsFromWeb(_, _, _, _, _)
ListBuildsFromWeb(stream, limit, all, pages, page_num) ==
    IF page_num > scroll_count THEN [items |-> all, pages |-> pages]
    ELSE LET got    == MapSeq(WebBuild, WebEntries(ServerPage(stream, (page_num - 1) * MaxPage, MaxPage)))
             pages2 == Append(pages, Len(got))
             all2   == all \o got
         IN  IF Len(got) = 0 THEN [items |-> all, pages |-> pages2]
             ELSE IF limit # Null /\ Len(all2) >= limit
                  THEN [items |-> Prefix(all2, limit), pages |-> pages2]
                  ELSE ListBuildsFromWeb(stream, limit, all2, pages2, page_num + 1)

\* What each scrape_config holds in its list of raw items before the loop.
Fetch(kind, stream, limit) ==
    CASE kind = "luci"           -> SearchBuilds(stream, limit, <<>>, <<>>)
      [] kind = "gitlab_ci"      -> PagedList(stream, limit, <<>>, <<>>, 1)
      [] kind = "buildkite"      -> ListBuildsFromWeb(stream, limit, <<>>, <<>>, 1)
      [] kind = "github_actions" ->
            \* fetch_workflow_runs(per_page=max_runs): one request
            LET got == IF limit = Null THEN stream ELSE Prefix(stream, limit)
            IN  [items |-> got, pages |-> <<Len(got)>>]
      [] kind = "koji"           ->
            \* listBuilds with queryOpts limit and order -build_id: one request
            LET got == IF limit = Null THEN stream ELSE Prefix(stream, limit)
            IN  [items |-> got, pages |-> <<Len(got)>>]
      [] kind = "obs"            ->
            \* _get_build_history, then reversed(history)[-max_builds:]
            LET hist == Reverse(stream)
                got  == IF limit = Null THEN hist ELSE Suffix(hist, limit)
            IN  [items |-> got, pages |-> <<Len(stream)>>]

-----------------------------------------------------------------------------
(* The per-item part of every scrape_config loop *)

Exists_NoLookup(kind, p, rows, run, job) == FALSE

\* "Check if we already have this build": one query per item against the
\* committed rows (the rows staged by the running pass are not in the session
\* yet), or, for OBS, membership in the set loaded before the loop.
Exists(kind, p, rows, run, job) ==
    CASE kind = "github_actions" ->
            \E r \in Rows(rows) : r.project_id = p /\ r.workflow_run_id = run /\ r.job_id = job
      [] kind = "obs" ->
            \E r \in Rows(rows) : r.project_id = p /\ r.data_source = "obs" /\ r.srcmd5 = run
      [] OTHER ->
            \E r \in Rows(rows) : r.project_id = p /\ r.build_id = run

\* GitHub Actions: the jobs of a run that survive the job filter.  With a
\* job_name only the job of that name (job 1) is kept; without one
\* _filter_build_jobs drops the jobs that have not started or completed.
KeptJobs(it, job_name) ==
    IF job_name THEN {j \in 1 .. it.jobs : j = 1}
    ELSE IF it.ts = Null THEN {} ELSE 1 .. it.jobs

RECURSIVE StageJobs(_, _, _, _, _, _)
StageJobs(it, pos, j, kept, p, rows) ==
    IF j > it.jobs THEN <<>>
    ELSE LET rest == StageJobs(it, pos, j + 1, kept, p, rows)
         IN  IF j \notin kept \/ Exists("github_actions", p, rows, it.run, j)
             THEN rest
             ELSE <<[pos |-> pos,
                     row |-> Build(p, "github_actions", it.run, j, Null, Null, it.ts)]>> \o rest

\* The rows one raw item contributes to builds_to_add.
StageItem(kind, it, pos, p, rows, job_name) ==
    CASE kind = "github_actions" ->
            StageJobs(it, pos, 1, KeptJobs(it, job_name), p, rows)
      [] kind \in {"luci", "buildkite"} ->
            IF Exists(kind, p, rows, it.run, Null) \/ ~it.commit THEN <<>>
            ELSE <<[pos |-> pos, row |-> Build(p, kind, Null, Null, it.run, Null, it.ts)]>>
      [] kind = "koji" ->
            IF Exists(kind, p, rows, it.run, Null) THEN <<>>
            ELSE <<[pos |-> pos, row |-> Build(p, kind, Null, Null, it.run, Null, it.ts)]>>
      [] kind = "obs" ->
            IF Exists(kind, p, rows, it.run, Null) THEN <<>>
            ELSE <<[pos |-> pos, row |-> Build(p, kind, Null, Null, Null, it.run, it.ts)]>>

StopsAt_Never(it, only_new, marker) == FALSE

\* Early exit: "if only_new and most_recent and id == most_recent: break".
StopsAt(it, only_new, marker) ==
    only_new /\ marker # Null /\ it.run = marker

\* The loop over the raw items: the staged rows, whether the loop raised
\* (GitHub Actions reads run["head_sha"] before anything else), and how many
\* items it went through before it ended (stopped: it ended at the marker).
RECURSIVE Scan(_, _, _, _, _, _, _, _, _)
Scan(kind, items, i, only_new, marker, p, rows, job_name, acc) ==
    IF i > Len(items)
    THEN [staged |-> acc, raised |-> FALSE, stopped |-> FALSE, seen |-> Len(items)]
    ELSE LET it == items[i] IN
         IF kind = "github_actions" /\ ~it.commit
         THEN [staged |-> acc, raised |-> TRUE, stopped |-> FALSE, seen |-> i]
         ELSE IF it.run = Null
         THEN Scan(kind, items, i + 1, only_new, marker, p, rows, job_name, acc)
         ELSE IF StopsAt(it, only_new, marker)
         THEN [staged |-> acc, raised |-> FALSE, stopped |-> TRUE, seen |-> i]
         ELSE Scan(kind, items, i + 1, only_new, marker, p, rows, job_name,
                   acc \o StageItem(kind, it, i, p, rows, job_name))

-----------------------------------------------------------------------------
(* scrape_config of the six connectors.                                    *)
(*                                                                         *)
(* fail: what the remote does to this call.  "raise": a request raises out *)
(* of scrape_config (HTTP error in fetch_workflow_runs / fetch_workflow_   *)
(* jobs / search_builds / listBuilds, or list_builds_from_web without a    *)
(* Firecrawl key); "swallow": a failure the connector absorbs itself       *)
(* (list_builds_from_web returns [] on a scrape error, Koji getPackage and *)
(* the OBS _history request return 0 from scrape_config).                  *)

FailModes(kind) ==
    CASE kind \in {"github_actions", "luci"} -> {"none", "raise"}
      [] kind \in {"buildkite", "koji"}      -> {"none", "raise", "swallow"}
      [] kind = "obs"                        -> {"none", "swallow"}
      [] OTHER                               -> {"none"}

\* First position of the stop marker in the raw items, 0 when it is absent.
MarkerPos(items, marker) ==
    LET at == {i \in 1 .. Len(items) : marker # Null /\ items[i].run = marker}
    IN  IF at = {} THEN 0 ELSE Min(at)

Outcome(raised, committed, staged, marker, items, pages) ==
    [raised |-> raised, committed |-> committed, staged |-> staged,
     marker |-> marker, items |-> items, pages |-> pages]

Raised    == Outcome(TRUE, FALSE, <<>>, Null, <<>>, <<>>)
Returned0 == Outcome(FALSE, FALSE, <<>>, Null, <<>>, <<>>)

\* builds_to_add at the moment a remote request raises.  A "raise" is the
\* failure of the last request the call would make.  Only GitHub Actions
\* makes requests inside its loop (fetch_workflow_jobs, once per run), so only
\* there the list can already hold rows: those of the runs before the one
\* whose jobs request fails.  Everywhere else the fetch precedes the loop.
BuildsToAddAtRaise(kind, items, only_new, marker, p, rows, job_name) ==
    IF kind # "github_actions" THEN <<>>
    ELSE LET full == Scan(kind, items, 1, only_new, marker, p, rows, job_name, <<>>)
             j    == IF full.stopped \/ full.raised THEN full.seen - 1 ELSE full.seen
         IN  IF j <= 1 THEN <<>>
             ELSE Scan(kind, Prefix(items, j - 1), 1, only_new, marker, p, rows,
                       job_name, <<>>).staged

\* The body shared by the connectors once the locator is read: marker query,
\* fetch, loop, db.add_all, last_checked_at and commit.
SyncBody(kind, conf, stream, only_new, limit, fail, rows, order) ==
    LET marker  == MostRecent(kind, conf.project_id, rows, only_new, order)
        fetched == IF fail = "swallow" /\ kind = "buildkite"
                   THEN [items |-> <<>>, pages |-> <<0>>]
                   ELSE Fetch(kind, stream, limit)
        scan    == Scan(kind, fetched.items, 1, only_new, marker, conf.project_id,
                        rows, conf.job_name, <<>>)
    IN  IF fail = "raise"
        THEN Outcome(TRUE, FALSE,
                     BuildsToAddAtRaise(kind, Fetch(kind, stream, limit).items, only_new,
                                        marker, conf.project_id, rows, conf.job_name),
                     Null, <<>>, <<>>)
        ELSE IF fail = "swallow" /\ kind \in {"koji", "obs"} THEN Returned0
        ELSE IF kind = "obs" /\ fetched.items = <<>> THEN Returned0
        ELSE IF scan.raised THEN Raised
        ELSE Outcome(FALSE, TRUE, scan.staged, marker, fetched.items, fetched.pages)

ScrapeConfig_NoLocatorCheck(kind, conf, stream, only_new, limit, fail, rows, order) ==
    SyncBody(kind, conf, stream, only_new, limit, fail, rows, order)

ScrapeConfig(kind, conf, stream, only_new, limit, fail, rows, order) ==
    IF kind = "gitlab_ci" /\ "scraper_config" \notin ProjectConfigAttrs
    THEN Raised                       \* config.scraper_config: AttributeError
    ELSE IF ~conf.locator THEN Raised \* "No ... config found": ValueError
    ELSE SyncBody(kind, conf, stream, only_new, limit, fail, rows, order)

StagedRows(out) == MapSeq(LAMBDA e : e.row, out.staged)

SessionAdds_InLoop(out) == StagedRows(out)

\* "if builds_to_add: db.add_all(builds_to_add)" comes after the loop: a call
\* that raised has put nothing into the session.
SessionAdds(out) == IF out.raised THEN <<>> ELSE StagedRows(out)

-----------------------------------------------------------------------------
(* State *)

\* A project_configs row joined with its project (is_active and stars are
\* columns of projects).
ConfigRow(p, src, enabled, active, hours, checked, locator, job_name) ==
    [project_id |-> p, data_source |-> src, is_enabled |-> enabled,
     is_active |-> active, check_interval_hours |-> hours,
     last_checked_at |-> checked, locator |-> locator, job_name |-> job_name,
     stars |-> Null, platform |-> "null"]

NoCall == [config |-> 0]

NoSync == [valid |-> FALSE]

NoPass == [phase |-> "idle"]

NoTrigger == [response |-> "none", tasks |-> 0, result |-> "none"]

\* ScraperScheduler.start: IntervalTrigger(hours=2), max_instances=1,
\* coalesce=True, under the id "scrape_all_projects".
interval_hours == 2

max_instances == 1

coalesce == TRUE

JobIds == {"scrape_all_projects"}

\* ScraperScheduler.__init__: is_running False, no job added.  instances is
\* the number of calls of the job function in progress.
NoJob == [is_running |-> FALSE, jobs |-> {}, next_run_time |-> Null, instances |-> 0]

\* The scheduler after start() at time t.
Started(s, t) ==
    [is_running |-> TRUE, jobs |-> s.jobs \cup JobIds,
     next_run_time |-> t + interval_hours, instances |-> s.instances]

\* The request (1-based) whose page holds position k of the raw items.
RECURSIVE PageOf(_, _, _)
PageOf(pages, k, n) ==
    IF n > Len(pages) THEN 0
    ELSE IF k <= pages[n] THEN n
    ELSE PageOf(pages, k - pages[n], n + 1)

\* What `last` records about a call: its arguments and outcome, the position
\* k of the stop marker in the raw items (0: none), the positions whose items
\* were staged, the number of raw items and of list requests made and the
\* request that returned the marker.
CallRecord(c, only_new, out, repeat) ==
    LET k  == MarkerPos(out.items, out.marker)
        st == IF out.raised THEN <<>> ELSE out.staged
    IN  [config |-> c, only_new |-> only_new,
         raised |-> out.raised, committed |-> out.committed,
         k |-> k,
         positions |-> {st[i].pos : i \in 1 .. Len(st)},
         count |-> Len(st),
         fetched |-> Len(out.items),
         requests |-> Len(out.pages),
         markerPage |-> IF k = 0 THEN 0 ELSE PageOf(out.pages, k, 1),
         repeat |-> repeat]

SyncRecord(only_new, limit) ==
    [valid |-> TRUE, only_new |-> only_new, limit |-> limit]

Commit_StampApart(c, out) ==
    /\ builds' = IF out.committed THEN builds \o SessionAdds(out) ELSE builds
    /\ cfg' = [cfg EXCEPT ![c].last_checked_at = now]

\* The effect of one scrape_config call on storage: the staged rows and the
\* new last_checked_at go in together at the commit; a call that raises or
\* returns early leaves storage as it was.
Commit(c, out) ==
    /\ builds' = IF out.committed THEN builds \o SessionAdds(out) ELSE builds
    /\ cfg' = IF out.committed THEN [cfg EXCEPT ![c].last_checked_at = now] ELSE cfg

\* synced[c] holds the arguments of the last committed call for c, provided
\* the remote answered every request of that call and has not changed since;
\* a call is a repeat when it runs with those arguments and is answered too.
Observe(c, only_new, limit, fail, out) ==
    /\ last' = CallRecord(c, only_new, out,
                          fail = "none" /\ synced[c] = SyncRecord(only_new, limit))
    /\ synced' = IF out.committed
                 THEN [synced EXCEPT ![c] = IF fail = "none"
                                            THEN SyncRecord(only_new, limit)
                                            ELSE NoSync]
                 ELSE synced

-----------------------------------------------------------------------------
(* SpecSync: one configuration of any connector, synced again and again by *)
(* a caller of scrape_config while its remote publishes items.             *)

MaxLimit == 2

\* max_builds / max_runs / max_pipelines: None or a count.
Limits == {Null} \cup (1 .. MaxLimit)

SyncConfig == 1

\* The items a remote publishes: a GitHub Actions run has NumJobs jobs, and
\* an item's start time follows its id (a later id started later).
Items(kind) ==
    {[run |-> r, jobs |-> IF kind = "github_actions" THEN NumJobs ELSE 0,
      ts |-> r, commit |-> TRUE] : r \in 1 .. NumRuns}

InitSync ==
    /\ \E src \in Connectors, jn \in BOOLEAN :
          /\ jn => src = "github_actions"
          /\ cfg = [c \in Configs |->
                      IF c = SyncConfig
                      THEN ConfigRow(c, src, TRUE, TRUE, 1, Null, TRUE, jn)
                      ELSE ConfigRow(c, "manual", FALSE, TRUE, 1, Null, FALSE, FALSE)]
    /\ remote = [c \in Configs |-> <<>>]
    /\ builds = <<>>
    /\ now = 1
    /\ scanOrder \in {"first", "last"}
    /\ last = NoCall
    /\ synced = [c \in Configs |-> NoSync]
    /\ pass = NoPass
    /\ session = <<>>
    /\ api = NoTrigger
    /\ sched = NoJob
    /\ inflight = {}

\* The remote platform publishes an item: at the head of a newest-first
\* listing, at the end of the OBS revision history.
Publish(c) ==
    /\ Len(remote[c]) < MaxLen
    /\ \E it \in Items(cfg[c].data_source) :
          remote' = [remote EXCEPT ![c] =
                        IF cfg[c].data_source = "obs"
                        THEN Append(@, it)
                        ELSE <<it>> \o @]
    /\ synced' = [synced EXCEPT ![c] = NoSync]
    /\ UNCHANGED <<cfg, builds, now, scanOrder, last>>
    /\ UNCHANGED passVars

\* A caller runs the connector of the configuration's data source.
Sync(c) ==
    \E only_new \in BOOLEAN, limit \in Limits, fail \in FailModes(cfg[c].data_source) :
        \E out \in {ScrapeConfig(cfg[c].data_source, cfg[c], remote[c], only_new, limit,
                                  fail, builds, scanOrder)} :
            /\ Commit(c, out)
            /\ Observe(c, only_new, limit, fail, out)
            /\ UNCHANGED <<remote, now, scanOrder>>
            /\ UNCHANGED passVars

NextSync == Publish(SyncConfig) \/ Sync(SyncConfig)

SpecSync == InitSync /\ [][NextSync]_vars

-----------------------------------------------------------------------------
(* Properties of the sync (SpecSync) *)

Called == last.config # 0

Paginating == {"luci", "gitlab_ci", "buildkite"}

\* The natural key of a persisted row within its (project_id, data_source).
NaturalKey(row) ==
    CASE row.data_source = "github_actions" -> <<row.workflow_run_id, row.job_id>>
      [] row.data_source = "obs"            -> <<row.srcmd5>>
      [] OTHER                              -> <<row.build_id>>

Persisted(c, it) ==
    \E r \in Rows(builds) :
        /\ r.project_id = cfg[c].project_id
        /\ r.data_source = cfg[c].data_source
        /\ it.run \in {r.workflow_run_id, r.build_id, r.srcmd5}

\* C1: idempotence of sync.  A scrape_config call that runs with the
\* arguments of the previous committed call of the same configuration, the
\* remote not having changed in between, stages no row and returns 0.
C1_SecondPassInsertsNothing ==
    (Called /\ last.repeat /\ ~last.raised) => last.count = 0

\* C1 witness: a repeated call committed over a non-empty builds table.
C1_Witness ==
    Called /\ last.repeat /\ last.committed /\ Len(builds) >= 2

\* C2: natural-key uniqueness.  Two different persisted rows of the same
\* (project_id, data_source) never carry the same natural key.
C2_NaturalKeysDistinct ==
    \A i, j \in 1 .. Len(builds) :
        (/\ i # j
         /\ builds[i].project_id = builds[j].project_id
         /\ builds[i].data_source = builds[j].data_source)
        => NaturalKey(builds[i]) # NaturalKey(builds[j])

\* C3: early stop, persistence.  In only_new mode with the stop marker at
\* position k of the raw items, every row the call staged comes from a
\* position before k.
C3_OnlyBeforeMarker ==
    (Called /\ last.committed /\ last.only_new /\ last.k > 0)
    => \A pos \in last.positions : pos < last.k

\* C3 witness: the marker sits in the middle of the raw items, something
\* before it was staged, and an item behind it is still not persisted.
C3_Witness ==
    /\ Called /\ last.committed /\ last.only_new
    /\ last.k >= 2 /\ last.count >= 1 /\ last.fetched > last.k
    /\ \E i \in 1 .. Len(remote[last.config]) : ~Persisted(last.config, remote[last.config][i])

\* C4: early stop, fetching.  In only_new mode a paginating connector makes
\* no list request after the one whose page holds the stop marker.
C4_NoRequestBeyondMarkerPage ==
    (/\ Called /\ last.committed /\ last.only_new /\ last.markerPage > 0
     /\ cfg[last.config].data_source \in Paginating)
    => last.requests <= last.markerPage

-----------------------------------------------------------------------------
(* The due test *)

IsDueScheduler_Strict(checked, t, hours) ==
    IF checked = Null THEN TRUE ELSE t - checked > hours

\* scrape_all_projects: a configuration never checked is due, otherwise it is
\* due when time_since_check >= check_interval.
IsDueScheduler(checked, t, hours) ==
    IF checked = Null THEN TRUE ELSE t - checked >= hours

\* scrape_all_configs: "if config.last_checked_at: if time_since_check <
\* timedelta(hours=config.check_interval_hours): continue".
SkipsConfig(checked, t, hours) ==
    checked # Null /\ t - checked < hours

IsDueScraper(checked, t, hours) == ~SkipsConfig(checked, t, hours)

-----------------------------------------------------------------------------
(* Passes: ScraperScheduler.scrape_all_projects, the scrapers'              *)
(* scrape_all_configs and the scrape command (cli/scrape.py).  A pass goes  *)
(* through its configurations one after the other inside one session.      *)

ConfigIds == DOMAIN cfg

RECURSIVE Ascending(_)
Ascending(S) == IF S = {} THEN <<>> ELSE <<Min(S)>> \o Ascending(S \ {Min(S)})

\* result.all() of a select without ORDER BY: the rows in scan order.
QueryOrder(S, order) ==
    IF order = "first" THEN Ascending(S) ELSE Reverse(Ascending(S))

\* last_checked_at is null or now - last_checked_at >= check_interval_hours,
\* read off a configuration at time t.
DueAt(conf, t) ==
    conf.last_checked_at = Null \/ t - conf.last_checked_at >= conf.check_interval_hours

\* "Post-scraping enhancements" of _scrape_config (scheduler.py:179-197).
\* stars: what update_github_stars did: "skipped" (the project's url is not
\* on github.com), "updated" (project.stars set and committed), "refused"
\* (the API answered something else than 200) or "raised" (an exception
\* inside its try block).  backfill: what backfill_luci_commit_messages did:
\* "no_repo", "updated" or "raised".  raised: an exception left the block.
NoEnrich == [stars |-> "none", backfill |-> "none", raised |-> FALSE]

StarModes == {"skipped", "updated", "refused", "raised"}

BackfillModes == {"no_repo", "updated", "raised"}

\* stargazers_count as the GitHub API reports it.
RemoteStars == 1

UpdateGithubStarsRaises_Propagates(mode) == mode = "raised"

\* update_github_stars: "except Exception as e: logger.error(...); return None".
UpdateGithubStarsRaises(mode) == FALSE

\* backfill_luci_commit_messages: "except Exception as e: ...; return 0".
BackfillRaises(mode) == FALSE

\* The outcomes of the block for one attempt.  It is entered when
\* builds_scraped > 0; the backfill is for LUCI configurations and is
\* preceded by a read of config.scraper_config (scheduler.py:190).
PostScrape(kind, conf, out) ==
    IF kind # "scheduler" \/ out.raised \/ Len(out.staged) = 0 THEN {NoEnrich}
    ELSE {[stars    |-> sm,
           backfill |-> IF UpdateGithubStarsRaises(sm) \/ conf.data_source # "luci"
                        THEN "none"
                        ELSE IF "scraper_config" \in ProjectConfigAttrs
                             THEN bm ELSE "AttributeError",
           raised   |-> \/ UpdateGithubStarsRaises(sm)
                        \/ /\ conf.data_source = "luci"
                           /\ \/ "scraper_config" \notin ProjectConfigAttrs
                              \/ BackfillRaises(bm)] :
            sm \in StarModes, bm \in BackfillModes}

\* The counters of a pass before its loop: total_builds of all three
\* routines, successful and failed of the scrape command, stats["errors"] of
\* scrape_all_configs (errors stands for both; the scheduler counts none).
NoSummary == [total_builds |-> 0, successful |-> 0, errors |-> 0]

Tally_AddsOnError(summary, kind, raised, builds_added) ==
    [total_builds |-> summary.total_builds + builds_added,
     successful   |-> IF ~raised /\ kind = "cli" THEN summary.successful + 1
                      ELSE summary.successful,
     errors       |-> IF raised /\ kind # "scheduler" THEN summary.errors + 1
                      ELSE summary.errors]

\* The counters after an attempt: the try adds the count returned and, in the
\* command, one to successful; the except adds one to the error counter.
Tally(summary, kind, raised, builds_added) ==
    [total_builds |-> IF raised THEN summary.total_builds
                      ELSE summary.total_builds + builds_added,
     successful   |-> IF ~raised /\ kind = "cli" THEN summary.successful + 1
                      ELSE summary.successful,
     errors       |-> IF raised /\ kind # "scheduler" THEN summary.errors + 1
                      ELSE summary.errors]

\* The pass record.  queue: the configurations still to come; error: the
\* routine failed outside the per-configuration try.  The rest observes the
\* pass.  decided: the configurations the pass has decided to attempt or to
\* leave out; wasDue: those for which DueAt held at that moment; tries,
\* result, count: the attempts made, how each ended and the count it
\* returned; persisted: the rows the commits of this pass wrote, by
\* configuration; checked0: last_checked_at when the pass began; enrich: what
\* the post-scraping enhancements of each attempt did.
NewPass(kind, origin, source, only_new, limit, queue, decided, error) ==
    [phase |-> "running", kind |-> kind, origin |-> origin, source |-> source,
     only_new |-> only_new, limit |-> limit, queue |-> queue, error |-> error,
     decided   |-> decided,
     wasDue    |-> {c \in decided : DueAt(cfg[c], now)},
     tries     |-> [c \in ConfigIds |-> 0],
     result    |-> [c \in ConfigIds |-> "none"],
     count     |-> [c \in ConfigIds |-> 0],
     persisted |-> [c \in ConfigIds |-> 0],
     checked0  |-> [c \in ConfigIds |-> cfg[c].last_checked_at],
     enrich    |-> [c \in ConfigIds |-> NoEnrich],
     summary   |-> NoSummary]

\* The rows of `rows` that belong to configuration c.
Written(rows, c) ==
    Cardinality({i \in 1 .. Len(rows) : rows[i].project_id = cfg[c].project_id})

\* scrape_all_projects up to its loop.  dbfail: opening the session or the
\* query raises, which the outer try catches.
ScrapeAllProjectsStart(origin) ==
    /\ pass.phase # "running"
    /\ \E dbfail \in BOOLEAN :
          LET enabled == {c \in ConfigIds : cfg[c].is_enabled /\ cfg[c].is_active}
              due     == {c \in enabled :
                             IsDueScheduler(cfg[c].last_checked_at, now,
                                            cfg[c].check_interval_hours)}
          IN  pass' = IF dbfail
                      THEN NewPass("scheduler", origin, "all", TRUE, Null, <<>>, {}, TRUE)
                      ELSE NewPass("scheduler", origin, "all", TRUE, Null,
                                   QueryOrder(due, scanOrder), ConfigIds, FALSE)
    /\ session' = <<>>

\* The sources whose scraper has a scrape_all_configs.
BatchSources == {"github_actions", "luci", "gitlab_ci"}

\* cli.py scrape_github_actions and its like: scraper.scrape_all_configs(db).
ScrapeAllConfigsStart ==
    /\ pass.phase # "running"
    /\ \E source \in BatchSources :
          LET mine == {c \in ConfigIds : /\ cfg[c].is_enabled
                                         /\ cfg[c].data_source = source
                                         /\ cfg[c].is_active}
          IN  pass' = NewPass("all_configs", "command", source, TRUE, Null,
                              QueryOrder(mine, scanOrder), {}, FALSE)
    /\ session' = <<>>
    /\ UNCHANGED <<cfg, remote, builds, now, scanOrder, last, synced, api, sched, inflight>>

\* cli/scrape.py main.run without project or source filter and with the
\* options at their defaults: --max-builds 100, --only-new.
ScrapeCommandStart ==
    /\ pass.phase # "running"
    /\ LET enabled == {c \in ConfigIds : cfg[c].is_enabled}
       IN  pass' = NewPass("cli", "command", "all", TRUE, 100,
                           QueryOrder(enabled, scanOrder), {}, FALSE)
    /\ session' = <<>>
    /\ UNCHANGED <<cfg, remote, builds, now, scanOrder, last, synced, api, sched, inflight>>

\* ScraperScheduler._scrape_config, the branch it takes on config.data_source:
\* the scraper it calls scrape_config on and with which arguments.  The LUCI
\* and GitLab CI branches read config.scraper_config first; no branch exists
\* for Koji, OBS, local builds or manual records.
SchedulerConnector(conf) ==
    LET kind == conf.data_source
        call(limit) == [scraper |-> kind, only_new |-> TRUE, limit |-> limit]
    IN  CASE kind = "github_actions" -> call(100)
          [] kind = "luci" ->
                IF "scraper_config" \in ProjectConfigAttrs
                THEN call(1000) ELSE [scraper |-> "AttributeError"]
          [] kind = "gitlab_ci" ->
                IF "scraper_config" \in ProjectConfigAttrs
                THEN call(100) ELSE [scraper |-> "AttributeError"]
          [] kind = "buildkite" -> call(100)
          [] OTHER -> [scraper |-> "unsupported"]

\* ScraperScheduler._scrape_config up to the connector's return.
SchedulerDispatch(conf, stream, fail, rows, order) ==
    LET call == SchedulerConnector(conf)
    IN  CASE call.scraper = "AttributeError" -> Raised
          [] call.scraper = "unsupported"    -> Returned0   \* builds_scraped = 0
          [] OTHER ->
                ScrapeConfig(call.scraper, conf, stream, call.only_new, call.limit,
                             fail, rows, order)

\* scrape_all_configs calls scrape_config(config, project, db): the defaults.
BatchDispatch(conf, stream, fail, rows, order) ==
    ScrapeConfig(conf.data_source, conf, stream, TRUE,
                 IF conf.data_source = "github_actions" THEN 100 ELSE Null,
                 fail, rows, order)

\* cli/scrape.py: max_runs = builds_limit or 100 for GitHub Actions,
\* builds_limit for the others.
CommandDispatch(conf, stream, only_new, limit, fail, rows, order) ==
    ScrapeConfig(conf.data_source, conf, stream, only_new,
                 IF conf.data_source = "github_actions" /\ limit = Null THEN 100 ELSE limit,
                 fail, rows, order)

Dispatch(p, conf, stream, fail, rows, order) ==
    CASE p.kind = "scheduler"   -> SchedulerDispatch(conf, stream, fail, rows, order)
      [] p.kind = "all_configs" -> BatchDispatch(conf, stream, fail, rows, order)
      [] p.kind = "cli"         -> CommandDispatch(conf, stream, p.only_new, p.limit,
                                                   fail, rows, order)

\* Whether the attempt ends in a commit of the pass's session: the
\* connector's own commit, the scheduler's after it (scheduler.py:201) or the
\* command's "commit after each project".
Commits(kind, out) ==
    IF kind = "all_configs" THEN out.committed ELSE ~out.raised

Stamps_OnFailure(kind, out) == TRUE

\* Whether the attempt sets config.last_checked_at: the connector before its
\* commit, the scheduler whenever _scrape_config gets to its end.
Stamps(kind, out) ==
    IF kind = "scheduler" THEN ~out.raised ELSE out.committed

\* Only the scrape command rolls the session back when an attempt raises.
RollsBack(kind, out) == kind = "cli" /\ out.raised

\* get_scraper_for_source returns None for local_build and manual.
HasScraper(source) == source \in Connectors

\* The loop body before the attempt: scrape_all_configs skips a
\* configuration that is not due, the command one without a scraper.
SkipsAttempt(p, conf, t) ==
    \/ p.kind = "all_configs"
       /\ SkipsConfig(conf.last_checked_at, t, conf.check_interval_hours)
    \/ p.kind = "cli" /\ ~HasScraper(conf.data_source)

Awaited_Spawned(fl) == TRUE

\* "builds = await self._scrape_config(...)": the loop goes on to the next
\* configuration only when the attempt in progress has returned or raised.
Awaited(fl) == fl = {}

OnException_Abort(queue) == <<>>

\* "except Exception ... # Continue with next config despite errors"
OnException(queue) == queue

PassSkip ==
    /\ pass.phase = "running" /\ pass.queue # <<>> /\ Awaited(inflight)
    /\ LET c == Head(pass.queue)
       IN  /\ SkipsAttempt(pass, cfg[c], now)
           /\ pass' = [pass EXCEPT
                         !.queue = Tail(@),
                         !.decided = @ \cup {c},
                         !.wasDue = IF DueAt(cfg[c], now) THEN @ \cup {c} ELSE @]
    /\ UNCHANGED <<cfg, remote, builds, now, scanOrder, last, synced, session, api,
                   sched, inflight>>

\* The loop enters scrape_config for the next configuration.
PassEnter ==
    /\ pass.phase = "running" /\ pass.queue # <<>> /\ Awaited(inflight)
    /\ LET c == Head(pass.queue)
       IN  /\ ~SkipsAttempt(pass, cfg[c], now)
           /\ pass' = [pass EXCEPT
                         !.queue = Tail(@),
                         !.decided = @ \cup {c},
                         !.wasDue = IF pass.kind # "scheduler" /\ DueAt(cfg[c], now)
                                    THEN @ \cup {c} ELSE @,
                         !.tries[c] = @ + 1]
           /\ inflight' = inflight \cup {c}
    /\ UNCHANGED <<cfg, remote, builds, now, scanOrder, last, synced, session, api, sched>>

\* The attempt returns or raises.
PassLeave(c) ==
    /\ pass.phase = "running" /\ c \in inflight
    /\ \E fail \in FailModes(cfg[c].data_source) :
      \E out \in {Dispatch(pass, cfg[c], remote[c], fail, builds, scanOrder)} :
      \E post \in PostScrape(pass.kind, cfg[c], out) :
          LET pend   == session \o SessionAdds(out)
              raised == out.raised \/ post.raised
              stamps == Stamps(pass.kind, out) /\ (out.committed \/ ~post.raised)
          IN  /\ builds' = IF Commits(pass.kind, out) THEN builds \o pend ELSE builds
              /\ session' = IF Commits(pass.kind, out) \/ RollsBack(pass.kind, out)
                            THEN <<>> ELSE pend
              /\ cfg' = [cfg EXCEPT
                           ![c].last_checked_at = IF stamps THEN now ELSE @,
                           ![c].stars = IF post.stars = "updated" THEN RemoteStars ELSE @]
              /\ pass' = [pass EXCEPT
                            !.result[c] = IF raised THEN "raised" ELSE "ok",
                            !.count[c]  = IF raised THEN 0 ELSE Len(out.staged),
                            !.queue     = IF raised THEN OnException(@) ELSE @,
                            !.enrich[c] = post,
                            !.summary   = Tally(@, pass.kind, raised, Len(out.staged)),
                            !.persisted = IF Commits(pass.kind, out)
                                          THEN [d \in ConfigIds |-> @[d] + Written(pend, d)]
                                          ELSE @]
    /\ inflight' = inflight \ {c}
    /\ UNCHANGED <<remote, now, scanOrder, last, synced, api, sched>>

ScrapeAllProjectsRaises_Propagates(error) == error

\* "except Exception as e: logger.error(...)" around the whole routine.
ScrapeAllProjectsRaises(error) == FALSE

\* trigger_scrape_now: await self.scrape_all_projects(); return "completed".
TriggerScrapeNow(error) ==
    IF ScrapeAllProjectsRaises(error) THEN "raised" ELSE "completed"

\* The pass is over: scrape_all_configs commits once more, the other two
\* leave their "async with" and the session is closed.
PassEnd ==
    /\ pass.phase = "running" /\ pass.queue = <<>> /\ inflight = {}
    /\ pass' = [pass EXCEPT
                  !.phase = "done",
                  !.persisted = IF pass.kind = "all_configs"
                                THEN [d \in ConfigIds |-> @[d] + Written(session, d)]
                                ELSE @]
    /\ builds' = IF pass.kind = "all_configs" THEN builds \o session ELSE builds
    /\ session' = <<>>
    /\ api' = IF pass.origin = "manual"
              THEN [api EXCEPT !.result = TriggerScrapeNow(pass.error)]
              ELSE api
    /\ UNCHANGED <<cfg, remote, now, scanOrder, last, synced, sched, inflight>>

-----------------------------------------------------------------------------
(* The trigger surface: api/scheduler.py and the interval job *)

MaxTasks == 1

\* POST /scheduler/trigger: background_tasks.add_task(trigger_manual_scrape)
\* and the acknowledgement.
TriggerScrape ==
    /\ api.tasks < MaxTasks
    /\ api' = [api EXCEPT !.response = "triggered", !.tasks = @ + 1]
    /\ UNCHANGED <<cfg, remote, builds, now, scanOrder, last, synced, pass, session,
                   sched, inflight>>

\* The background task runs trigger_manual_scrape -> trigger_scrape_now.
BackgroundTask ==
    /\ api.tasks > 0
    /\ ScrapeAllProjectsStart("manual")
    /\ api' = [api EXCEPT !.tasks = @ - 1, !.result = "none"]
    /\ UNCHANGED <<cfg, remote, builds, now, scanOrder, last, synced, sched, inflight>>

\* The interval job calls scrape_all_projects.
IntervalJob ==
    /\ sched.is_running
    /\ ScrapeAllProjectsStart("interval")
    /\ UNCHANGED <<cfg, remote, builds, now, scanOrder, last, synced, api, sched, inflight>>

-----------------------------------------------------------------------------
(* SpecSched: the server and the batch commands over a small table of      *)
(* configurations.  Passes follow one another; the remotes publish and the *)
(* clock advances at any moment.                                           *)

MaxTime == 2

InitialItems == 2

\* What a remote serves after publishing n items, the n-th being the newest.
RECURSIVE Published(_, _)
Published(kind, n) ==
    IF n = 0 THEN <<>>
    ELSE LET it == [run |-> n, jobs |-> IF kind = "github_actions" THEN NumJobs ELSE 0,
                    ts |-> n, commit |-> TRUE]
         IN  IF kind = "obs" THEN Append(Published(kind, n - 1), it)
             ELSE <<it>> \o Published(kind, n - 1)

InitSched ==
    /\ \E src \in DataSource, en \in BOOLEAN, act \in BOOLEAN :
          /\ en \/ act
          /\ cfg = [c \in Configs |->
                      IF c = 1
                      THEN ConfigRow(c, src, en, act, 2, Null, TRUE, FALSE)
                      ELSE ConfigRow(c, "github_actions", TRUE, TRUE, 1, Null, TRUE, FALSE)]
    /\ remote = [c \in Configs |->
                    IF cfg[c].data_source \in Connectors
                    THEN Published(cfg[c].data_source, InitialItems) ELSE <<>>]
    /\ builds = <<>>
    /\ now = 1
    /\ scanOrder \in {"first", "last"}
    /\ last = NoCall
    /\ synced = [c \in Configs |-> NoSync]
    /\ pass = NoPass
    /\ session = <<>>
    /\ api = NoTrigger
    /\ sched = Started(NoJob, 1)
    /\ inflight = {}

Advance(limit) ==
    /\ now < limit
    /\ now' = now + 1
    /\ UNCHANGED <<cfg, remote, builds, scanOrder, last, synced, pass, session, api,
                   sched, inflight>>

Tick == Advance(MaxTime)

NextSched ==
    \/ Tick
    \/ TriggerScrape
    \/ BackgroundTask
    \/ IntervalJob
    \/ ScrapeAllConfigsStart
    \/ ScrapeCommandStart
    \/ PassSkip
    \/ PassEnter
    \/ \E c \in Configs : PassLeave(c)
    \/ PassEnd

SpecSched == InitSched /\ [][NextSched]_vars

-----------------------------------------------------------------------------
(* Properties of the passes (SpecSched) *)

InPass == pass.phase # "idle"

Candidates ==
    {c \in ConfigIds : /\ cfg[c].is_enabled /\ cfg[c].is_active
                       /\ pass.kind = "all_configs" => cfg[c].data_source = pass.source}

\* C6: no error propagation between configurations.  In a pass of
\* scrape_all_projects or of a scrape_all_configs no configuration is
\* attempted twice, the configurations attempted are candidates that were due
\* when the pass decided on them, and when the pass is over every candidate
\* has been decided on and those that were due have been attempted once.
C6_EachDueConfigOnce ==
    (InPass /\ pass.kind \in {"scheduler", "all_configs"} /\ ~pass.error) =>
        \A c \in ConfigIds :
            /\ pass.tries[c] <= 1
            /\ pass.tries[c] = 1 => c \in Candidates /\ c \in pass.wasDue
            /\ pass.phase = "done" =>
                  /\ c \in Candidates => c \in pass.decided
                  /\ (c \in Candidates /\ c \in pass.wasDue) => pass.tries[c] = 1

\* C6 witness: a finished pass in which the first configuration attempted
\* raised and the one after it was attempted all the same.
C6_Witness ==
    /\ InPass /\ pass.phase = "done" /\ pass.kind \in {"scheduler", "all_configs"}
    /\ \E c, d \in ConfigIds :
          /\ c # d /\ pass.result[c] = "raised"
          /\ pass.tries[d] = 1 /\ pass.result[d] # "none"
          /\ (scanOrder = "first") = (c < d)

\* C10: fire-and-forget manual trigger.  The trigger answers "triggered"
\* whatever happens to the pass, the pass a background task runs is the
\* routine of the interval job, and trigger_scrape_now ends with "completed"
\* whether the pass failed as a whole or in any configuration.
C10_TriggerFireAndForget ==
    /\ api.response \in {"none", "triggered"}
    /\ api.result \in {"none", "completed"}
    /\ api.tasks > 0 => api.response = "triggered"
    /\ (InPass /\ pass.origin \in {"manual", "interval"}) => pass.kind = "scheduler"
    /\ (InPass /\ pass.origin = "manual" /\ pass.phase = "done") => api.result = "completed"

\* C10 witness: the acknowledgement is out while the background task has not
\* begun, after an earlier manually triggered pass failed as a whole.
C10_Witness ==
    /\ api.response = "triggered" /\ api.tasks > 0
    /\ InPass /\ pass.origin = "manual" /\ pass.phase = "done" /\ pass.error
    /\ api.result = "completed"

-----------------------------------------------------------------------------
(* SpecDue: the due test of the scheduler and of scrape_all_configs applied *)
(* to one configuration, for every clock reading, last_checked_at and       *)
(* check interval within the bounds.                                        *)

MaxClock == 26

\* check_interval_hours: the column default is 24.
DueIntervals == {1, 2, 24}

InitDue ==
    /\ now \in 1 .. MaxClock
    /\ \E checked \in {Null} \cup (1 .. now), hours \in DueIntervals :
          cfg = [c \in Configs |->
                    ConfigRow(c, "github_actions", TRUE, TRUE,
                              IF c = 1 THEN hours ELSE 24,
                              IF c = 1 THEN checked ELSE Null, TRUE, FALSE)]
    /\ remote = [c \in Configs |-> <<>>]
    /\ builds = <<>>
    /\ scanOrder = "first"
    /\ last = NoCall
    /\ synced = [c \in Configs |-> NoSync]
    /\ pass = NoPass
    /\ session = <<>>
    /\ api = NoTrigger
    /\ sched = NoJob
    /\ inflight = {}

\* Both loops decide on configuration c at the current clock reading.
EvaluateDue(c) ==
    /\ last' = [config |-> c,
                scheduler |-> IsDueScheduler(cfg[c].last_checked_at, now,
                                             cfg[c].check_interval_hours),
                scraper   |-> IsDueScraper(cfg[c].last_checked_at, now,
                                           cfg[c].check_interval_hours)]
    /\ UNCHANGED <<cfg, remote, builds, now, scanOrder, synced, pass, session, api,
                   sched, inflight>>

NextDue == \E c \in Configs : EvaluateDue(c)

SpecDue == InitDue /\ [][NextDue]_vars

\* C7: due calculation.  The scheduler and scrape_all_configs both take a
\* configuration as due exactly when last_checked_at is null or
\* now - last_checked_at >= check_interval_hours; with an interval of 24 a
\* configuration checked 25 hours ago is due and one checked 1 hour ago is not.
C7_DuePredicate ==
    last.config # 0 =>
        LET conf == cfg[last.config]
            ago  == now - conf.last_checked_at
        IN  /\ last.scheduler = DueAt(conf, now)
            /\ last.scraper = DueAt(conf, now)
            /\ (conf.check_interval_hours = 24 /\ conf.last_checked_at # Null /\ ago = 25)
                  => last.scheduler /\ last.scraper
            /\ (conf.check_interval_hours = 24 /\ conf.last_checked_at # Null /\ ago = 1)
                  => ~last.scheduler /\ ~last.scraper

\* C7 witness: the boundary, a configuration checked exactly one interval of
\* 24 hours ago, found due by both.
C7_Witness ==
    /\ last.config = 1
    /\ cfg[1].check_interval_hours = 24 /\ cfg[1].last_checked_at # Null
    /\ now - cfg[1].last_checked_at = 24
    /\ last.scheduler /\ last.scraper

-----------------------------------------------------------------------------
(* SpecJob: the interval job under APScheduler.  Whenever the scheduler     *)
(* wakes up with the job's next run time behind it, it collects the run    *)
(* times that have come due, keeps the last one only if the job coalesces, *)
(* submits what it kept unless the job already has max_instances calls in  *)
(* progress, and moves the next run time past the last run time.  A wake-  *)
(* up can come late, and a run time found too late is dropped as misfired. *)

MaxJobClock == 8

\* start(): is_running guards the whole body.
Start ==
    /\ sched' = IF sched.is_running THEN sched ELSE Started(sched, now)
    /\ UNCHANGED <<cfg, remote, builds, now, scanOrder, last, synced, pass, session,
                   api, inflight>>

\* The run times due at time t: next_run_time, then every interval_hours.
DueRunTimes(s, t) ==
    {r \in s.next_run_time .. t : (r - s.next_run_time) % interval_hours = 0}

MayStart_Unbounded(instances) == TRUE

\* max_instances=1: a submission is refused while a call is in progress.
MayStart(instances) == instances < max_instances

\* How many of n submissions made in a row are accepted.
RECURSIVE Accepted(_, _)
Accepted(n, instances) ==
    IF n = 0 \/ ~MayStart(instances) THEN 0
    ELSE 1 + Accepted(n - 1, instances + 1)

Wake ==
    /\ sched.is_running /\ sched.jobs # {}
    /\ sched.next_run_time <= now
    /\ \E misfired \in BOOLEAN :
          LET due       == DueRunTimes(sched, now)
              submitted == IF misfired THEN 0
                           ELSE IF coalesce THEN 1 ELSE Cardinality(due)
              started   == Accepted(submitted, sched.instances)
          IN  /\ sched' = [sched EXCEPT !.instances = @ + started,
                                        !.next_run_time = Max(due) + interval_hours]
              /\ last' = [config |-> 0, op |-> "wake", due |-> Cardinality(due),
                          busy |-> sched.instances > 0, started |-> started]
    /\ UNCHANGED <<cfg, remote, builds, now, scanOrder, synced, pass, session, api,
                   inflight>>

\* A call of scrape_all_projects made by the job returns.
JobDone ==
    /\ sched.instances > 0
    /\ sched' = [sched EXCEPT !.instances = @ - 1]
    /\ UNCHANGED <<cfg, remote, builds, now, scanOrder, last, synced, pass, session,
                   api, inflight>>

InitJob ==
    /\ cfg = [c \in Configs |->
                ConfigRow(c, "github_actions", TRUE, TRUE, 1, Null, TRUE, FALSE)]
    /\ remote = [c \in Configs |-> <<>>]
    /\ builds = <<>>
    /\ now = 1
    /\ scanOrder = "first"
    /\ last = NoCall
    /\ synced = [c \in Configs |-> NoSync]
    /\ pass = NoPass
    /\ session = <<>>
    /\ api = NoTrigger
    /\ sched = NoJob
    /\ inflight = {}

TickJob == Advance(MaxJobClock)

NextJob == Start \/ Wake \/ JobDone \/ TickJob

SpecJob == InitJob /\ [][NextJob]_vars

Woke == "op" \in DOMAIN last /\ last.op = "wake"

\* C9: coalesced recurring trigger.  The interval job never has two calls in
\* progress, and a wake-up, however many run times have come due, starts at
\* most one call and none while a call is in progress: the firings are not
\* queued.
C9_OneInstanceCoalesced ==
    /\ sched.instances <= 1
    /\ Woke => /\ last.started <= 1
               /\ last.busy => last.started = 0

\* C9 witness: a wake-up that found several run times due and started one
\* call for all of them.
C9_Witness ==
    /\ Woke /\ last.due >= 2 /\ last.started = 1 /\ sched.instances = 1

-----------------------------------------------------------------------------
(* SpecPool: how many sync tasks are inside scrape_config at once, over a  *)
(* table with more configurations than the cap of scrape_parallel.         *)

NumTasks == 6

\* cli.py scrape_parallel: asyncio.Semaphore(5).
semaphore == 5

\* The configurations scrape_parallel gets to create a task for.  The list
\* of tasks is built from config.workflow_file, which ProjectConfig does not
\* have: the comprehension raises AttributeError at its first configuration.
ParallelTasks(configs) ==
    IF "workflow_file" \in ProjectConfigAttrs THEN configs ELSE {}

\* scrape_parallel, the whole command: it returns when it finds no
\* configuration and otherwise raises before a task exists, so that nothing
\* ever waits for or holds the semaphore.
ScrapeParallel ==
    /\ LET configs == {c \in ConfigIds : /\ cfg[c].is_enabled
                                         /\ cfg[c].data_source = "github_actions"
                                         /\ cfg[c].is_active}
       IN  /\ ParallelTasks(configs) = {}
           /\ last' = [config |-> 0, op |-> "scrape_parallel",
                       found |-> Cardinality(configs),
                       raised |-> configs # {},
                       tasks |-> Cardinality(ParallelTasks(configs))]
    /\ UNCHANGED <<cfg, remote, builds, now, scanOrder, synced, pass, session, api,
                   sched, inflight>>

Tasks == 1 .. NumTasks

InitPool ==
    /\ \E enabled \in SUBSET Tasks :
          cfg = [c \in Tasks |->
                    ConfigRow(c, "github_actions", c \in enabled, TRUE, 1, Null, TRUE, FALSE)]
    /\ remote = [c \in Tasks |-> <<>>]
    /\ builds = <<>>
    /\ now = 1
    /\ scanOrder = "first"
    /\ last = NoCall
    /\ synced = [c \in Tasks |-> NoSync]
    /\ pass = NoPass
    /\ session = <<>>
    /\ api = NoTrigger
    /\ sched = Started(NoJob, 1)
    /\ inflight = {}

NextPool ==
    \/ IntervalJob
    \/ PassEnter
    \/ \E c \in Tasks : PassLeave(c)
    \/ PassEnd
    \/ ScrapeParallel

SpecPool == InitPool /\ [][NextPool]_vars

\* C8: concurrency bound.  However many configurations are due, no more than
\* five sync tasks are inside scrape_config at one time, in a pass of the
\* scheduler and in scrape_parallel.
C8_AtMostFiveInFlight ==
    /\ Cardinality(inflight) <= semaphore
    /\ ("op" \in DOMAIN last /\ last.op = "scrape_parallel") => last.tasks <= semaphore

\* C8 witness: a scheduler pass over more due configurations than the cap,
\* one of them inside scrape_config and the cap's number still waiting.
C8_Witness ==
    /\ InPass /\ pass.phase = "running" /\ pass.kind = "scheduler"
    /\ Cardinality(inflight) = 1
    /\ Len(pass.queue) >= semaphore

-----------------------------------------------------------------------------
(* SpecLive: the server left running.  The interval job fires again and     *)
(* again, every await of a pass returns, and the clock never stops.  The    *)
(* code reads the clock only to compare it with last_checked_at, so once    *)
(* the clock reading has reached MaxLiveClock the model moves every         *)
(* last_checked_at one hour back instead of the clock one hour on; a        *)
(* timestamp that would fall below 1 stays at 1, which keeps its age at     *)
(* MaxLiveClock - 1, not below any check interval in use.                   *)

MaxLiveClock == 3

LiveIntervals == 1 .. (MaxLiveClock - 1)

HourBack(t) == IF t = Null THEN Null ELSE IF t > 1 THEN t - 1 ELSE 1

TickLive ==
    /\ IF now < MaxLiveClock
       THEN /\ now' = now + 1
            /\ UNCHANGED <<cfg, pass>>
       ELSE /\ now' = now
            /\ cfg' = [c \in ConfigIds |->
                          [cfg[c] EXCEPT !.last_checked_at = HourBack(@)]]
            /\ pass' = IF pass.phase = "idle" THEN pass
                       ELSE [pass EXCEPT !.checked0 =
                                [c \in ConfigIds |-> HourBack(pass.checked0[c])]]
    /\ UNCHANGED <<remote, builds, scanOrder, last, synced, session, api, sched, inflight>>

\* The configurations whose attempt raised in the pass that just ended.
RaisedIn(p) ==
    IF p.phase = "idle" THEN {} ELSE {c \in ConfigIds : p.result[c] = "raised"}

\* The interval job fires; `last` keeps what the pass before it left behind.
RecurringJob ==
    /\ sched.is_running
    /\ ScrapeAllProjectsStart("interval")
    /\ last' = [config |-> 0, op |-> "pass", retry |-> RaisedIn(pass)]
    /\ UNCHANGED <<cfg, remote, builds, now, scanOrder, synced, api, sched, inflight>>

InitLive ==
    /\ \E src \in DataSource, h \in LiveIntervals :
          cfg = [c \in Configs |->
                    IF c = 1
                    THEN ConfigRow(c, src, TRUE, TRUE, h, Null, TRUE, FALSE)
                    ELSE ConfigRow(c, "github_actions", TRUE, TRUE, 1, Null, TRUE, FALSE)]
    /\ remote = [c \in Configs |->
                    IF cfg[c].data_source \in Connectors
                    THEN Published(cfg[c].data_source, InitialItems) ELSE <<>>]
    /\ builds = <<>>
    /\ now = 1
    /\ scanOrder \in {"first", "last"}
    /\ last = NoCall
    /\ synced = [c \in Configs |-> NoSync]
    /\ pass = NoPass
    /\ session = <<>>
    /\ api = NoTrigger
    /\ sched = Started(NoJob, 1)
    /\ inflight = {}

NextLive ==
    \/ TickLive
    \/ RecurringJob
    \/ PassEnter
    \/ \E c \in Configs : PassLeave(c)
    \/ PassEnd

\* The trigger recurs and the database answers it again and again; a pass
\* that has started goes on, since every request of a connector carries a
\* timeout and every await therefore returns or raises.
FairLive ==
    /\ WF_vars(TickLive)
    /\ SF_vars(RecurringJob /\ ~pass'.error)
    /\ WF_vars(PassEnter)
    /\ WF_vars(\E c \in Configs : PassLeave(c))
    /\ WF_vars(PassEnd)

SpecLive == InitLive /\ [][NextLive]_vars /\ FairLive

-----------------------------------------------------------------------------
(* Properties of the running server (SpecLive) *)

AfterPass == "op" \in DOMAIN last /\ last.op = "pass"

\* A configuration the scheduler's query returns.
Eligible(c) == cfg[c].is_enabled /\ cfg[c].is_active

\* A configuration whose attempt raised is as it was before the pass: still
\* enabled, last_checked_at untouched (so still due), and the pass does not
\* come back to it.
FailedStaysEligible ==
    InPass =>
        \A c \in ConfigIds :
            pass.result[c] = "raised" =>
                /\ Eligible(c)
                /\ cfg[c].last_checked_at = pass.checked0[c]
                /\ DueAt(cfg[c], now)
                /\ pass.tries[c] = 1
                /\ c \notin Rows(pass.queue) /\ c \notin inflight

\* The pass after one in which an attempt raised takes the configuration up
\* again: it is in the queue, inside scrape_config or attempted.
FailedIsRetried ==
    (InPass /\ AfterPass /\ ~pass.error) =>
        \A c \in last.retry :
            /\ c \in Rows(pass.queue) \/ c \in inflight \/ pass.tries[c] = 1
            /\ pass.phase = "done" => pass.tries[c] = 1

\* C11: failure is not terminal.  A configuration whose sync raised stays
\* eligible and due, is not attempted a second time in the same pass and is
\* attempted by the next pass; with the interval job recurring, every enabled
\* configuration of an active project is inside an attempt again and again,
\* however many of its attempts fail.
C11_FailureNotTerminal ==
    /\ [](FailedStaysEligible /\ FailedIsRetried)
    /\ \A c \in Configs : []<>(Eligible(c) => c \in inflight)

\* C11 witness: a configuration that raised in the pass before was attempted
\* by this pass and raised again.
C11_Witness ==
    /\ InPass /\ AfterPass
    /\ \E c \in last.retry : pass.tries[c] = 1 /\ pass.result[c] = "raised"

-----------------------------------------------------------------------------
(* Dispatch of the scheduler (SpecSched) *)

\* C12: dispatch by source kind.  Whenever a scheduler pass has attempted a
\* configuration whose data source is one of the six connector kinds,
\* _scrape_config called the scraper of that kind with only_new on.
C12_DispatchByKind ==
    (InPass /\ pass.kind = "scheduler") =>
        \A c \in ConfigIds :
            (pass.result[c] # "none" /\ cfg[c].data_source \in Connectors) =>
                LET call == SchedulerConnector(cfg[c])
                IN  /\ call.scraper = cfg[c].data_source
                    /\ call.only_new

\* C13: best-effort enrichment.  In a scheduler pass the star refresh and the
\* commit-message backfill run only in an attempt whose sync returned at
\* least one new record, and whatever they do, the attempt returns: its
\* result is the sync's count and the rows the sync committed are persisted.
C13_EnrichmentBestEffort ==
    (InPass /\ pass.kind = "scheduler") =>
        \A c \in ConfigIds :
            (pass.enrich[c].stars # "none" \/ pass.enrich[c].backfill # "none") =>
                /\ pass.result[c] = "ok"
                /\ pass.count[c] >= 1
                /\ pass.persisted[c] = pass.count[c]

\* C13 witness: the star refresh raised inside update_github_stars after a
\* sync that had committed rows, and the attempt returned its count.
C13_Witness ==
    /\ InPass /\ pass.kind = "scheduler" /\ pass.phase = "done"
    /\ \E c \in ConfigIds :
          /\ pass.enrich[c].stars = "raised"
          /\ pass.result[c] = "ok" /\ pass.persisted[c] >= 1
          /\ cfg[c].last_checked_at = now

-----------------------------------------------------------------------------
(* SpecLocal: local builds (scrapers/local_builder.py, cli.py                *)
(* run_local_builds).  remote[c] is the branch of the project's repository, *)
(* newest commit first; a row of builds recorded by a local build carries   *)
(* commit_sha and platform.                                                 *)

\* models.py Platform
Platform == {"ubuntu-latest", "macos-latest", "windows-latest", "ubuntu-22.04",
             "ubuntu-24.04", "macos-13", "macos-14", "windows-2022"}

\* What detect_platform reads off the machine: platform.system() and, on
\* Linux, the version /etc/os-release names, on macOS the one mac_ver() gives.
Hosts == {[system |-> "linux", version |-> "22.04"],
          [system |-> "linux", version |-> "24.04"],
          [system |-> "linux", version |-> "20.04"],
          [system |-> "darwin", version |-> "13"],
          [system |-> "darwin", version |-> "14"],
          [system |-> "darwin", version |-> "12"],
          [system |-> "windows", version |-> "11"],
          [system |-> "freebsd", version |-> "14"]}

\* LocalBuilder.detect_platform
DetectPlatform(host) ==
    CASE host.system = "linux" ->
            IF host.version = "22.04" THEN "ubuntu-22.04"
            ELSE IF host.version = "24.04" THEN "ubuntu-24.04"
            ELSE "ubuntu-latest"
      [] host.system = "darwin" ->
            IF host.version = "13" THEN "macos-13"
            ELSE IF host.version = "14" THEN "macos-14"
            ELSE "macos-latest"
      [] host.system = "windows" -> "windows-2022"
      [] OTHER -> "ubuntu-latest"

LocalBuild(p, sha, platform, ts) ==
    [project_id |-> p, data_source |-> "local_build", commit_sha |-> sha,
     platform |-> platform, started_at |-> ts]

\* get_commit_info: git rev-parse HEAD in the checked-out branch.
HeadCommit(branch) == IF branch = <<>> THEN Null ELSE Head(branch).run

\* LocalBuilder.build_config.  It begins by reading config.build_command,
\* which ProjectConfig does not have.  Behind that read come the checkout,
\* the look-up of a row with the configuration's platform and the new row
\* with the platform detected on the host.
BuildConfig(conf, branch, host, rows, t) ==
    IF "build_command" \notin ProjectConfigAttrs
    THEN [returned |-> "AttributeError", add |-> <<>>, stamp |-> FALSE]
    ELSE LET sha      == HeadCommit(branch)
             existing == \E r \in Rows(rows) :
                            /\ r.project_id = conf.project_id
                            /\ r.commit_sha = sha
                            /\ r.platform = conf.platform
                            /\ r.data_source = "local_build"
         IN  IF existing
             THEN [returned |-> "False", add |-> <<>>, stamp |-> FALSE]
             ELSE [returned |-> "True",
                   add |-> <<LocalBuild(conf.project_id, sha, DetectPlatform(host), t)>>,
                   stamp |-> TRUE]

\* The loop of run_local_builds: one build_config after the other in one
\* session, "except Exception ... continue".
RECURSIVE BuildAll(_, _, _, _)
BuildAll(queue, host, rows, acc) ==
    IF queue = <<>> THEN acc
    ELSE LET c == Head(queue)
             r == BuildConfig(cfg[c], remote[c], host, rows \o acc.add, now)
         IN  BuildAll(Tail(queue), host, rows,
                      [add      |-> acc.add \o r.add,
                       returned |-> [acc.returned EXCEPT ![c] = r.returned],
                       stamped  |-> IF r.stamp THEN acc.stamped \cup {c} ELSE acc.stamped])

\* cli.py run_local_builds, the whole command: query, loop, commit.
RunLocalBuilds ==
    \E host \in Hosts :
      LET mine == {c \in ConfigIds : /\ cfg[c].is_enabled
                                     /\ cfg[c].data_source = "local_build"
                                     /\ cfg[c].is_active}
      IN  \E done \in {BuildAll(QueryOrder(mine, scanOrder), host, builds,
                                [add |-> <<>>, returned |-> [c \in ConfigIds |-> "none"],
                                 stamped |-> {}])} :
            /\ builds' = builds \o done.add
            /\ cfg' = [c \in ConfigIds |->
                         IF c \in done.stamped
                         THEN [cfg[c] EXCEPT !.last_checked_at = now] ELSE cfg[c]]
            /\ last' = [config |-> 0, op |-> "run_local_builds", host |-> host,
                        returned |-> done.returned,
                        repeat |-> {c \in mine : synced[c] = [valid |-> TRUE, host |-> host]}]
            /\ synced' = [c \in ConfigIds |->
                             IF c \in mine THEN [valid |-> TRUE, host |-> host]
                             ELSE synced[c]]
            /\ UNCHANGED <<remote, now, scanOrder>>
            /\ UNCHANGED passVars

InitLocal ==
    /\ \E pl \in Platform \cup {"null"}, en \in BOOLEAN :
          cfg = [c \in Configs |->
                    [ConfigRow(c, "local_build", c # 1 \/ en, TRUE, 24, Null, TRUE, FALSE)
                        EXCEPT !.platform = IF c = 1 THEN pl ELSE "ubuntu-latest"]]
    /\ remote = [c \in Configs |-> Published("local_build", 1)]
    /\ builds = <<>>
    /\ now = 1
    /\ scanOrder = "first"
    /\ last = NoCall
    /\ synced = [c \in Configs |-> NoSync]
    /\ pass = NoPass
    /\ session = <<>>
    /\ api = NoTrigger
    /\ sched = NoJob
    /\ inflight = {}

\* A commit is pushed to the branch of c.
Push(c) ==
    /\ Len(remote[c]) < MaxLen
    /\ remote' = [remote EXCEPT ![c] = Published("local_build", Len(@) + 1)]
    /\ synced' = [synced EXCEPT ![c] = NoSync]
    /\ UNCHANGED <<cfg, builds, now, scanOrder, last>>
    /\ UNCHANGED passVars

NextLocal ==
    \/ \E c \in Configs : Push(c)
    \/ RunLocalBuilds

SpecLocal == InitLocal /\ [][NextLocal]_vars

LocalRun == "op" \in DOMAIN last /\ last.op = "run_local_builds"

\* C14: local-build idempotence.  When build_config has run a second time for
\* a configuration on the same host with the branch at the same commit, the
\* second call returned False and builds holds exactly one LOCAL_BUILD row of
\* that project and commit.
C14_LocalBuildIdempotent ==
    LocalRun =>
        \A c \in last.repeat :
            /\ last.returned[c] = "False"
            /\ Cardinality({i \in 1 .. Len(builds) :
                               /\ builds[i].project_id = cfg[c].project_id
                               /\ builds[i].data_source = "local_build"
                               /\ builds[i].commit_sha = HeadCommit(remote[c])}) = 1

-----------------------------------------------------------------------------
(* SpecRecord: the Build a connector makes of one remote item.  remote[1]   *)
(* holds the item as the remote system has it; the action is the part of    *)
(* scrape_config between the existence check and builds_to_add.append.      *)

\* A timestamp of a remote item is missing (Null), a text that does not parse,
\* or a time in seconds.
Unparseable == -1

Instants == {10, 20, 45}

Times == Instants \cup {Null, Unparseable}

\* An optional column of a Build: None is SQL NULL.
None == <<>>

Some(x) == <<x>>

\* The status values each remote system gives a finished or unfinished item.
NativeStatus(kind) ==
    CASE kind = "github_actions" -> {"success", "failure", "cancelled", "skipped"}
      [] kind = "luci"           -> {"SUCCESS", "FAILURE", "INFRA_FAILURE", "CANCELED"}
      [] kind = "buildkite"      -> {"passed", "failed", "canceled", "blocked"}
      [] kind = "gitlab_ci"      -> {"success", "failed", "canceled", "skipped"}
      [] kind = "koji"           -> {0, 1, 3, 4}
      [] kind = "obs"            -> {"succeeded", "failed", "blocked", "unknown"}

\* is_build_successful / _is_build_successful of each scraper; GitHub compares
\* job["conclusion"] in place.
is_build_successful(kind, status) ==
    CASE kind = "github_actions" -> status = "success"
      [] kind = "luci"           -> status = "SUCCESS"
      [] kind = "buildkite"      -> status = "passed"
      [] kind = "gitlab_ci"      -> status = "success"
      [] kind = "koji"           -> status = 1
      [] kind = "obs"            -> status = "succeeded"

\* start: the item's own start time, end: its end time, created: the time the
\* item was created (Koji creation_time, time of an OBS revision).  An OBS
\* package whose build status cannot be fetched ("unknown") has no times.
NativeItems(kind) ==
    {it \in [status : NativeStatus(kind), start : Times, end : Times,
             created : {Null, 10}] :
        (kind = "obs" /\ it.status = "unknown") => (it.start = Null /\ it.end = Null)}

\* calculate_duration (GitHub), calculate_duration_from_times (LUCI, Buildkite)
calculate_duration(started_at, completed_at) ==
    IF started_at = Null \/ completed_at = Null THEN None
    ELSE IF started_at = Unparseable \/ completed_at = Unparseable THEN None
    ELSE Some(completed_at - started_at)

\* datetime.fromisoformat(...) if ... else None, in the arguments of Build(...)
FromIso(t) == IF t = Null THEN None ELSE Some(t)

\* _filter_build_jobs drops a successful job shorter than this many seconds.
ShortJob == 15

\* BuildkiteScraper.list_builds_from_web: what the list page gives of a build.
WebListing(it) == [it EXCEPT !.status = "passed", !.start = Null, !.end = Null]

Row(kind, success, duration, started_at, finished_at) ==
    [outcome |-> "persisted",
     row |-> [project_id |-> 1, data_source |-> kind, success |-> success,
              duration_seconds |-> duration, started_at |-> started_at,
              finished_at |-> finished_at]]

NoRow(outcome) == [outcome |-> outcome, row |-> None]

BuildRecord(kind, conf, it) ==
    CASE kind = "github_actions" ->
            LET duration == calculate_duration(it.start, it.end)
                filtered == /\ ~conf.job_name
                            /\ \/ /\ duration # None
                                  /\ duration[1] < ShortJob
                                  /\ it.status = "success"
                               \/ it.start = Null
                               \/ it.end = Null
            IN  IF filtered THEN NoRow("skipped")
                ELSE IF Unparseable \in {it.start, it.end} THEN NoRow("ValueError")
                ELSE Row(kind, it.status = "success", duration,
                         FromIso(it.start), FromIso(it.end))
      [] kind = "luci" ->
            IF Unparseable \in {it.start, it.end} THEN NoRow("ValueError")
            ELSE Row(kind, is_build_successful(kind, it.status),
                     calculate_duration(it.start, it.end),
                     FromIso(it.start), FromIso(it.end))
      [] kind = "buildkite" ->
            LET build_data == WebListing(it)
            IN  Row(kind, is_build_successful(kind, build_data.status),
                    calculate_duration(build_data.start, build_data.end),
                    FromIso(build_data.start), FromIso(build_data.end))
      [] kind = "gitlab_ci" ->
            IF "scraper_config" \notin ProjectConfigAttrs THEN NoRow("AttributeError")
            ELSE Row(kind, is_build_successful(kind, it.status),
                     calculate_duration(it.start, it.end),
                     FromIso(it.start), FromIso(it.end))
      [] kind = "koji" ->
            \* start_time_raw = build_data.get("creation_time")
            IF Unparseable \in {it.created, it.end} THEN NoRow("ValueError")
            ELSE Row(kind, is_build_successful(kind, it.status),
                     IF it.created # Null /\ it.end # Null
                     THEN Some(it.end - it.created) ELSE None,
                     FromIso(it.created), FromIso(it.end))
      [] kind = "obs" ->
            \* "unknown": no build status could be fetched for the package
            LET build_status == it.status # "unknown"
                started_at  == IF build_status /\ it.start \in Instants THEN it.start
                               ELSE it.created
                finished_at == IF build_status /\ it.end \in Instants THEN it.end
                               ELSE Null
            IN  Row(kind, is_build_successful(kind, it.status),
                    IF build_status /\ started_at # Null /\ finished_at # Null
                    THEN Some(finished_at - started_at) ELSE None,
                    FromIso(started_at), FromIso(finished_at))

\* The item of remote[1] goes through the loop body of scrape_config.
Record ==
    /\ last.op = "item"
    /\ \E out \in {BuildRecord(cfg[1].data_source, cfg[1], remote[1][1])} :
          /\ builds' = IF out.outcome = "persisted" THEN <<out.row>> ELSE <<>>
          /\ last' = [config |-> 1, op |-> "record", outcome |-> out.outcome]
    /\ UNCHANGED <<cfg, remote, now, scanOrder, synced>>
    /\ UNCHANGED passVars

InitRecord ==
    /\ \E kind \in Connectors, jn \in BOOLEAN :
          /\ jn => kind = "github_actions"
          /\ cfg = [c \in Configs |->
                      IF c = 1 THEN ConfigRow(c, kind, TRUE, TRUE, 1, Null, TRUE, jn)
                      ELSE ConfigRow(c, "manual", FALSE, TRUE, 1, Null, FALSE, FALSE)]
          /\ \E it \in NativeItems(kind) :
                remote = [c \in Configs |-> IF c = 1 THEN <<it>> ELSE <<>>]
    /\ builds = <<>>
    /\ now = 1
    /\ scanOrder = "first"
    /\ last = [config |-> 1, op |-> "item"]
    /\ synced = [c \in Configs |-> NoSync]
    /\ pass = NoPass
    /\ session = <<>>
    /\ api = NoTrigger
    /\ sched = NoJob
    /\ inflight = {}

NextRecord == Record

SpecRecord == InitRecord /\ [][NextRecord]_vars

Recorded == "op" \in DOMAIN last /\ last.op = "record" /\ last.outcome = "persisted"

\* C15: success inference.  The Build a connector has made of a remote item
\* has success true exactly when the item's native status is the one success
\* value of its source.
C15_SuccessInference ==
    Recorded =>
        (builds[1].success <=>
            is_build_successful(cfg[1].data_source, remote[1][1].status))

\* C16: duration.  The Build a connector has made has duration_seconds equal
\* to end - start of the item's own start and end times when both are present
\* and parse, and NULL otherwise.
C16_DurationFromOwnTimes ==
    Recorded =>
        LET it == remote[1][1]
        IN  builds[1].duration_seconds =
                IF it.start \in Instants /\ it.end \in Instants
                THEN Some(it.end - it.start) ELSE None

-----------------------------------------------------------------------------
(* SpecLabels: parse_platform_from_labels (scrapers/github_actions.py).  A  *)
(* label is the sequence of its characters, so that lower(), "in" on a      *)
(* string (substring) and "in" on a list (membership) are what they are in  *)
(* the code.                                                                *)

\* Runner labels of a job.
RunnerLabels ==
    {
     \* ubuntu-latest
     <<"u", "b", "u", "n", "t", "u", "-", "l", "a", "t", "e", "s", "t">>,
     \* ubuntu-22.04
     <<"u", "b", "u", "n", "t", "u", "-", "2", "2", ".", "0", "4">>,
     \* ubuntu-24.04
     <<"u", "b", "u", "n", "t", "u", "-", "2", "4", ".", "0", "4">>,
     \* Ubuntu-22.04
     <<"U", "b", "u", "n", "t", "u", "-", "2", "2", ".", "0", "4">>,
     \* windows-latest
     <<"w", "i", "n", "d", "o", "w", "s", "-", "l", "a", "t", "e", "s", "t">>,
     \* windows-2022
     <<"w", "i", "n", "d", "o", "w", "s", "-", "2", "0", "2", "2">>,
     \* windows-2019
     <<"w", "i", "n", "d", "o", "w", "s", "-", "2", "0", "1", "9">>,
     \* macos-latest
     <<"m", "a", "c", "o", "s", "-", "l", "a", "t", "e", "s", "t">>,
     \* macos-13
     <<"m", "a", "c", "o", "s", "-", "1", "3">>,
     \* macos-14
     <<"m", "a", "c", "o", "s", "-", "1", "4">>,
     \* macos-13-xlarge
     <<"m", "a", "c", "o", "s", "-", "1", "3", "-", "x", "l", "a", "r", "g", "e">>,
     \* macOS
     <<"m", "a", "c", "O", "S">>,
     \* self-hosted
     <<"s", "e", "l", "f", "-", "h", "o", "s", "t", "e", "d">>,
     \* X64
     <<"X", "6", "4">>}

\* the length of job["labels"]
MaxLabels == 2

LabelLists == UNION {[1 .. n -> RunnerLabels] : n \in 0 .. MaxLabels}

\* str.lower on the characters that occur
LowerChar(ch) ==
    CASE ch = "U" -> "u"
      [] ch = "O" -> "o"
      [] ch = "S" -> "s"
      [] ch = "X" -> "x"
      [] ch = "L" -> "l"
      [] ch = "D" -> "d"
      [] ch = "W" -> "w"
      [] OTHER -> ch

Lower(label) == [i \in 1 .. Len(label) |-> LowerChar(label[i])]

\* needle in hay, both strings
Contains(hay, needle) ==
    \E i \in 0 .. (Len(hay) - Len(needle)) :
        SubSeq(hay, i + 1, i + Len(needle)) = needle

\* " ".join(labels)
RECURSIVE Join(_)
Join(labels) ==
    IF labels = <<>> THEN <<>>
    ELSE IF Len(labels) = 1 THEN labels[1]
    ELSE labels[1] \o <<" ">> \o Join(Tail(labels))

\* The texts the function looks for.
Text ==
    [windows |-> <<"w", "i", "n", "d", "o", "w", "s">>,
     windows_2022 |-> <<"w", "i", "n", "d", "o", "w", "s", "-", "2", "0", "2", "2">>,
     v2022 |-> <<"2", "0", "2", "2">>,
     macos |-> <<"m", "a", "c", "o", "s">>,
     mac |-> <<"m", "a", "c">>,
     macos_13 |-> <<"m", "a", "c", "o", "s", "-", "1", "3">>,
     macos_13_0 |-> <<"m", "a", "c", "o", "s", "-", "1", "3", ".", "0">>,
     macos_14 |-> <<"m", "a", "c", "o", "s", "-", "1", "4">>,
     macos_14_0 |-> <<"m", "a", "c", "o", "s", "-", "1", "4", ".", "0">>,
     ubuntu |-> <<"u", "b", "u", "n", "t", "u">>,
     ubuntu_22_04 |-> <<"u", "b", "u", "n", "t", "u", "-", "2", "2", ".", "0", "4">>,
     v22_04 |-> <<"2", "2", ".", "0", "4">>,
     ubuntu_24_04 |-> <<"u", "b", "u", "n", "t", "u", "-", "2", "4", ".", "0", "4">>,
     v24_04 |-> <<"2", "4", ".", "0", "4">>]

parse_platform_from_labels(labels) ==
    IF labels = <<>> THEN "ubuntu-latest"
    ELSE
    LET labels_lower == [i \in 1 .. Len(labels) |-> Lower(labels[i])]
        labels_str   == Join(labels_lower)
        member(x)    == \E i \in 1 .. Len(labels_lower) : labels_lower[i] = x
        anyHas(x)    == \E i \in 1 .. Len(labels_lower) : Contains(labels_lower[i], x)
    IN  IF anyHas(Text.windows)
        THEN IF member(Text.windows_2022) \/ Contains(labels_str, Text.v2022)
             THEN "windows-2022" ELSE "windows-latest"
        ELSE IF anyHas(Text.macos) \/ anyHas(Text.mac)
        THEN IF member(Text.macos_13) \/ member(Text.macos_13_0) THEN "macos-13"
             ELSE IF member(Text.macos_14) \/ member(Text.macos_14_0) THEN "macos-14"
             ELSE "macos-latest"
        ELSE IF anyHas(Text.ubuntu)
        THEN IF member(Text.ubuntu_22_04) \/ Contains(labels_str, Text.v22_04) THEN "ubuntu-22.04"
             ELSE IF member(Text.ubuntu_24_04) \/ Contains(labels_str, Text.v24_04) THEN "ubuntu-24.04"
             ELSE "ubuntu-latest"
        ELSE "ubuntu-latest"

\* One job's labels are parsed.
ParseLabels ==
    /\ last.op = "labels"
    /\ last' = [config |-> 0, op |-> "platform", labels |-> last.labels,
                platform |-> parse_platform_from_labels(last.labels)]
    /\ UNCHANGED <<cfg, remote, builds, now, scanOrder, synced>>
    /\ UNCHANGED passVars

InitLabels ==
    /\ \E labels \in LabelLists : last = [config |-> 0, op |-> "labels", labels |-> labels]
    /\ cfg = [c \in Configs |-> ConfigRow(c, "github_actions", TRUE, TRUE, 1, Null, TRUE, FALSE)]
    /\ remote = [c \in Configs |-> <<>>]
    /\ builds = <<>>
    /\ now = 1
    /\ scanOrder = "first"
    /\ synced = [c \in Configs |-> NoSync]
    /\ pass = NoPass
    /\ session = <<>>
    /\ api = NoTrigger
    /\ sched = NoJob
    /\ inflight = {}

NextLabels == ParseLabels

SpecLabels == InitLabels /\ [][NextLabels]_vars

Parsed == "op" \in DOMAIN last /\ last.op = "platform"

\* Some label, read without regard to case, has the text x in it.
HasToken(labels, x) == \E i \in 1 .. Len(labels) : Contains(Lower(labels[i]), x)

\* The OS family the labels signal: Windows before macOS before Ubuntu.
Family(labels) ==
    IF HasToken(labels, Text.windows) THEN "windows"
    ELSE IF HasToken(labels, Text.mac) THEN "macos"
    ELSE IF HasToken(labels, Text.ubuntu) THEN "ubuntu"
    ELSE "none"

\* C17: platform inference from runner labels.  ['ubuntu-22.04'] gives
\* UBUNTU_22_04, ['windows-latest'] WINDOWS_LATEST, no labels or no OS signal
\* UBUNTU_LATEST, and within an OS family the versioned value is returned
\* whenever a label carries an explicit version token (22.04, 24.04, macos-13,
\* macos-14, 2022), the "-latest" value only otherwise.
C17_PlatformFromLabels ==
    Parsed =>
        LET labels == last.labels
            p      == last.platform
        IN  /\ labels = <<Text.ubuntu_22_04>> => p = "ubuntu-22.04"
            /\ labels = <<Text.windows \o <<"-", "l", "a", "t", "e", "s", "t">> >> => p = "windows-latest"
            /\ Family(labels) = "none" => p = "ubuntu-latest"
            /\ Family(labels) = "windows" =>
                  p = IF HasToken(labels, Text.v2022) THEN "windows-2022" ELSE "windows-latest"
            /\ Family(labels) = "macos" =>
                  IF HasToken(labels, Text.macos_13) \/ HasToken(labels, Text.macos_14)
                  THEN p \in {"macos-13", "macos-14"}
                  ELSE p = "macos-latest"
            /\ Family(labels) = "ubuntu" =>
                  IF HasToken(labels, Text.v22_04) \/ HasToken(labels, Text.v24_04)
                  THEN p \in {"ubuntu-22.04", "ubuntu-24.04"}
                  ELSE p = "ubuntu-latest"

-----------------------------------------------------------------------------
(* SpecParallel: two GitHub Actions configurations of one project that      *)
(* share a workflow file (import_projects makes one configuration per       *)
(* platform), synced by the scrape command one at a time and by             *)
(* scrape_parallel.                                                         *)

\* A run of the shared workflow appears in the listing of both
\* configurations.
PublishRun ==
    /\ \A c \in Configs : Len(remote[c]) < MaxLen
    /\ remote' = [c \in Configs |-> Published("github_actions", Len(remote[c]) + 1)]
    /\ synced' = [c \in Configs |-> NoSync]
    /\ UNCHANGED <<cfg, builds, now, scanOrder, last>>
    /\ UNCHANGED passVars

InitParallel ==
    /\ \E enabled \in SUBSET Configs :
          cfg = [c \in Configs |->
                    ConfigRow(1, "github_actions", c \in enabled, TRUE, 24, Null, TRUE, FALSE)]
    /\ remote = [c \in Configs |-> <<>>]
    /\ builds = <<>>
    /\ now = 1
    /\ scanOrder = "first"
    /\ last = NoCall
    /\ synced = [c \in Configs |-> NoSync]
    /\ pass = NoPass
    /\ session = <<>>
    /\ api = NoTrigger
    /\ sched = NoJob
    /\ inflight = {}

NextParallel ==
    \/ PublishRun
    \/ \E c \in Configs : Sync(c)
    \/ ScrapeParallel

SpecParallel == InitParallel /\ [][NextParallel]_vars

-----------------------------------------------------------------------------
(* SpecOverlap: the calls of scrape_all_projects in progress on the server. *)
(* The interval job is called by APScheduler (max_instances=1); a POST      *)
(* /scheduler/trigger adds a background task that awaits                    *)
(* trigger_scrape_now, which calls scrape_all_projects itself.  All of them *)
(* are coroutines of one event loop and give way at every await.  Here      *)
(* pass[e] is the call e: 0 the job's, 1 .. MaxTriggers the background      *)
(* tasks'.                                                                  *)

MaxTriggers == 2

Calls == 0 .. MaxTriggers

Idle == [phase |-> "idle", origin |-> "none", queue |-> <<>>]

\* scrape_all_projects from its first line to the loop: the query and the
\* due filter give configs_to_scrape.
ConfigsToScrape ==
    LET enabled == {c \in ConfigIds : cfg[c].is_enabled /\ cfg[c].is_active}
        due     == {c \in enabled :
                       IsDueScheduler(cfg[c].last_checked_at, now,
                                      cfg[c].check_interval_hours)}
    IN  QueryOrder(due, scanOrder)

\* APScheduler submits the interval job; the submission is refused while a
\* call of the job is in progress.
JobFires ==
    /\ sched.is_running /\ MayStart(sched.instances)
    /\ pass[0].phase = "idle"
    /\ sched' = [sched EXCEPT !.instances = @ + 1]
    /\ pass' = [pass EXCEPT ![0] = [phase |-> "running", origin |-> "interval",
                                    queue |-> ConfigsToScrape]]
    /\ UNCHANGED <<cfg, remote, builds, now, scanOrder, last, synced, session, api,
                   inflight>>

\* POST /scheduler/trigger: add_task and the acknowledgement; nothing is
\* looked at before.
TriggerArrives ==
    /\ api.tasks < MaxTriggers
    /\ api' = [api EXCEPT !.response = "triggered", !.tasks = @ + 1]
    /\ UNCHANGED <<cfg, remote, builds, now, scanOrder, last, synced, pass, session,
                   sched, inflight>>

\* A background task begins: trigger_manual_scrape -> trigger_scrape_now ->
\* scrape_all_projects.
TaskStarts(e) ==
    /\ e # 0 /\ api.tasks > 0
    /\ pass[e].phase = "idle"
    /\ api' = [api EXCEPT !.tasks = @ - 1, !.result = "none"]
    /\ pass' = [pass EXCEPT ![e] = [phase |-> "running", origin |-> "manual",
                                    queue |-> ConfigsToScrape]]
    /\ UNCHANGED <<cfg, remote, builds, now, scanOrder, last, synced, session, sched,
                   inflight>>

\* One turn of the loop of call e: await self._scrape_config(config, ...).
CallScrapes(e) ==
    /\ pass[e].phase = "running" /\ pass[e].queue # <<>>
    /\ LET c == Head(pass[e].queue)
       IN  \E fail \in FailModes(cfg[c].data_source) :
           \E out \in {SchedulerDispatch(cfg[c], remote[c], fail, builds, scanOrder)} :
           \E post \in PostScrape("scheduler", cfg[c], out) :
              /\ builds' = IF Commits("scheduler", out)
                           THEN builds \o SessionAdds(out) ELSE builds
              /\ cfg' = [cfg EXCEPT
                           ![c].last_checked_at =
                               IF Stamps("scheduler", out) /\ (out.committed \/ ~post.raised)
                               THEN now ELSE @,
                           ![c].stars = IF post.stars = "updated" THEN RemoteStars ELSE @]
              /\ pass' = [pass EXCEPT ![e].queue = OnException(Tail(@))]
              /\ last' = [config |-> c, op |-> "call", call |-> e,
                          others |-> {d \in Calls \ {e} : pass[d].phase = "running"}]
    /\ UNCHANGED <<remote, now, scanOrder, synced, session, api, sched, inflight>>

\* Call e returns.
CallReturns(e) ==
    /\ pass[e].phase = "running" /\ pass[e].queue = <<>>
    /\ pass' = [pass EXCEPT ![e] = Idle]
    /\ sched' = IF e = 0 THEN [sched EXCEPT !.instances = @ - 1] ELSE sched
    /\ api' = IF e # 0 THEN [api EXCEPT !.result = TriggerScrapeNow(FALSE)] ELSE api
    /\ UNCHANGED <<cfg, remote, builds, now, scanOrder, last, synced, session, inflight>>

InitOverlap ==
    /\ \E src \in {"github_actions", "buildkite", "koji"} :
          cfg = [c \in Configs |->
                    ConfigRow(c, IF c = 1 THEN src ELSE "github_actions",
                              TRUE, TRUE, 24, Null, TRUE, FALSE)]
    /\ remote = [c \in Configs |-> Published(cfg[c].data_source, 1)]
    /\ builds = <<>>
    /\ now = 1
    /\ scanOrder = "first"
    /\ last = NoCall
    /\ synced = [c \in Configs |-> NoSync]
    /\ pass = [e \in Calls |-> Idle]
    /\ session = <<>>
    /\ api = NoTrigger
    /\ sched = Started(NoJob, 1)
    /\ inflight = {}

NextOverlap ==
    \/ JobFires
    \/ TriggerArrives
    \/ \E e \in Calls : TaskStarts(e)
    \/ \E e \in Calls : CallScrapes(e)
    \/ \E e \in Calls : CallReturns(e)

SpecOverlap == InitOverlap /\ [][NextOverlap]_vars

InProgress == {e \in Calls : pass[e].phase = "running"}

\* C19: single pass at a time across trigger kinds.  At most one call of
\* scrape_all_projects is in progress at any moment, the interval job's and
\* the manually triggered ones counted together.
C19_OnePassAtATime == Cardinality(InProgress) <= 1

-----------------------------------------------------------------------------
(* SpecGap: only_new calls with a fetch limit over a newest-first listing   *)
(* that grows at its front only, each new item with a later id and start    *)
(* time than all before it.                                                 *)

\* max_runs / max_builds of every call.  The scheduler passes 100 (GitHub
\* Actions, Buildkite) and 1000 (LUCI), the scrape command 100 by default.
FetchLimit == 1

NewestFirst == {"github_actions", "luci", "buildkite", "koji"}

\* The remote publishes its next item at the head of the listing.
PublishNewest(c) ==
    /\ Len(remote[c]) < MaxLen
    /\ remote' = [remote EXCEPT ![c] = Published(cfg[c].data_source, Len(@) + 1)]
    /\ synced' = [synced EXCEPT ![c] = NoSync]
    /\ UNCHANGED <<cfg, builds, now, scanOrder, last>>
    /\ UNCHANGED passVars

\* scrape_config(config, project, db, FetchLimit, only_new=True)
SyncOnlyNew(c) ==
    \E fail \in FailModes(cfg[c].data_source) :
        \E out \in {ScrapeConfig(cfg[c].data_source, cfg[c], remote[c], TRUE, FetchLimit,
                                  fail, builds, scanOrder)} :
            /\ Commit(c, out)
            /\ Observe(c, TRUE, FetchLimit, fail, out)
            /\ UNCHANGED <<remote, now, scanOrder>>
            /\ UNCHANGED passVars

InitGap ==
    /\ \E src \in NewestFirst, jn \in BOOLEAN :
          /\ jn => src = "github_actions"
          /\ cfg = [c \in Configs |->
                      IF c = SyncConfig
                      THEN ConfigRow(c, src, TRUE, TRUE, 1, Null, TRUE, jn)
                      ELSE ConfigRow(c, "manual", FALSE, TRUE, 1, Null, FALSE, FALSE)]
    /\ remote = [c \in Configs |-> <<>>]
    /\ builds = <<>>
    /\ now = 1
    /\ scanOrder \in {"first", "last"}
    /\ last = NoCall
    /\ synced = [c \in Configs |-> NoSync]
    /\ pass = NoPass
    /\ session = <<>>
    /\ api = NoTrigger
    /\ sched = NoJob
    /\ inflight = {}

NextGap == PublishNewest(SyncConfig) \/ SyncOnlyNew(SyncConfig)

SpecGap == InitGap /\ [][NextGap]_vars

\* The remote ids of the persisted rows of configuration c.
PersistedIds(c) ==
    {it.run : it \in {x \in Rows(remote[c]) : Persisted(c, x)}}

\* C20: no gaps under a fetch limit.  After an only_new call with fetch limit
\* FetchLimit that the remote answered in full and that committed, every item
\* of the listing newer than the oldest persisted one is persisted.
C20_NoGapsUnderLimit ==
    (synced[SyncConfig] = SyncRecord(TRUE, FetchLimit) /\ PersistedIds(SyncConfig) # {}) =>
        \A it \in Rows(remote[SyncConfig]) :
            it.run > Min(PersistedIds(SyncConfig)) => Persisted(SyncConfig, it)

-----------------------------------------------------------------------------
(* Further properties of the sync (SpecSync) *)

\* C21: the OBS early stop drops nothing.  After an only_new call of the OBS
\* connector that the remote answered in full and that committed, every
\* revision the call fetched is persisted: none was left out for coming
\* after the stop marker in the order of the scan.
C21_ObsEarlyStopKeepsAll ==
    (/\ cfg[SyncConfig].data_source = "obs"
     /\ synced[SyncConfig].valid
     /\ synced[SyncConfig].only_new) =>
        \A it \in Rows(Fetch("obs", remote[SyncConfig], synced[SyncConfig].limit).items) :
            Persisted(SyncConfig, it)

\* C24: atomic sync commit.  A call of a connector's scrape_config either
\* commits, and then the rows it staged and the configuration's new
\* last_checked_at are in storage together after that one step, or it does
\* not, and then storage holds neither: builds and project_configs are as
\* they were before the call.
C24_AtomicSyncCommit ==
    [][remote' = remote =>
          IF last'.committed
          THEN /\ Len(builds') - Len(builds) = last'.count
               /\ cfg'[SyncConfig].last_checked_at = now'
          ELSE /\ builds' = builds
               /\ cfg' = cfg]_vars

\* C24 witness: a call has committed the rows it staged and the new
\* last_checked_at in one step.
C24_Witness ==
    /\ last.config = SyncConfig /\ last.committed /\ last.count >= 1
    /\ Len(builds) >= last.count
    /\ \A it \in Rows(remote[SyncConfig]) : Persisted(SyncConfig, it)
    /\ cfg[SyncConfig].last_checked_at = now

\* C28: only_new is an optimisation only.  For a connector whose listing is
\* newest first, whatever the fetch limit: when no item persisted lies before
\* the stop marker in the fetched listing, a call with only_new on stages the
\* same rows as a call with only_new off made on the same listing and the
\* same storage.
C28_OnlyNewSameInserts ==
    LET c    == SyncConfig
        kind == cfg[c].data_source
    IN  kind \in {"github_actions", "luci", "buildkite", "koji"} =>
            \A limit \in Limits :
                LET on  == ScrapeConfig(kind, cfg[c], remote[c], TRUE, limit, "none",
                                        builds, scanOrder)
                    off == ScrapeConfig(kind, cfg[c], remote[c], FALSE, limit, "none",
                                        builds, scanOrder)
                    k   == MarkerPos(on.items, on.marker)
                IN  (\A i \in 1 .. Len(on.items) :
                        (i < k) => ~Persisted(c, on.items[i]))
                    => Rows(StagedRows(on)) = Rows(StagedRows(off))

\* The items of the first n pages together.
RECURSIVE Accumulated(_, _)
Accumulated(pages, n) == IF n = 0 THEN 0 ELSE Accumulated(pages, n - 1) + pages[n]

\* What a paginated fetch with the given limit did on its way to the result
\* f: it returned no more than limit items, the items are those of its pages,
\* it made no request once limit items were accumulated, each request asked
\* for min(page size, remaining) items and got no more, and only its last
\* request got fewer than it asked for.
WithinLimit(f, limit) ==
    /\ limit # Null => Len(f.items) <= limit
    /\ Len(f.items) = Accumulated(f.pages, Len(f.pages))
    /\ \A i \in 1 .. Len(f.pages) :
          LET before == Accumulated(f.pages, i - 1)
              asked  == IF limit = Null THEN MaxPage ELSE Min2(MaxPage, limit - before)
          IN  /\ limit # Null => before < limit
              /\ asked >= 1
              /\ f.pages[i] <= asked
              /\ i < Len(f.pages) => f.pages[i] = asked

\* C31: the paginated fetch terminates and respects the limit.  On every
\* listing a remote serves and for every limit (none, below, at and above the
\* length of the listing) search_builds and the page-numbered list_builds /
\* search_pipelines return after at most one request per item and one more,
\* with at most limit items, every request within the page size and the
\* remaining count.
C31_PaginatedFetchWithinLimit ==
    \A limit \in {Null} \cup (1 .. MaxLen + 1) :
        \A f \in {SearchBuilds(remote[SyncConfig], limit, <<>>, <<>>),
                  PagedList(remote[SyncConfig], limit, <<>>, <<>>, 1)} :
            /\ WithinLimit(f, limit)
            /\ Len(f.pages) <= Len(remote[SyncConfig]) + 1

\* C31 witness: a LUCI call fetched a listing longer than a page in two
\* requests, and a limit between the page size and the length of the
\* listing makes search_builds ask for a full page and then for the rest.
C31_Witness ==
    /\ Called /\ cfg[SyncConfig].data_source = "luci"
    /\ last.requests = 2 /\ last.fetched = MaxLen
    /\ SearchBuilds(remote[SyncConfig], MaxPage + 1, <<>>, <<>>).pages = <<MaxPage, 1>>

-----------------------------------------------------------------------------
(* SpecLate: a GitHub Actions workflow whose runs are listed before their   *)
(* jobs have completed.  An item with ts = Null is a run whose jobs have no *)
(* started_at / completed_at yet.                                           *)

\* A run is queued: it heads the listing, its jobs not yet completed.
RunQueued(c) ==
    /\ cfg[c].data_source = "github_actions"
    /\ Len(remote[c]) < MaxLen
    /\ remote' = [remote EXCEPT ![c] =
                     <<[run |-> Len(@) + 1, jobs |-> NumJobs, ts |-> Null,
                        commit |-> TRUE]>> \o @]
    /\ synced' = [synced EXCEPT ![c] = NoSync]
    /\ UNCHANGED <<cfg, builds, now, scanOrder, last>>
    /\ UNCHANGED passVars

\* The jobs of a listed run complete.
RunCompletes(c) ==
    /\ \E i \in 1 .. Len(remote[c]) :
          /\ remote[c][i].ts = Null
          /\ remote' = [remote EXCEPT ![c][i].ts = remote[c][i].run]
    /\ synced' = [synced EXCEPT ![c] = NoSync]
    /\ UNCHANGED <<cfg, builds, now, scanOrder, last>>
    /\ UNCHANGED passVars

\* A caller runs the configuration's connector over the whole listing (no
\* limit, or one above the number of items); every request is answered.
SyncListing(c) ==
    \E only_new \in BOOLEAN :
        \E out \in {ScrapeConfig(cfg[c].data_source, cfg[c], remote[c], only_new, Null,
                                  "none", builds, scanOrder)} :
            /\ Commit(c, out)
            /\ Observe(c, only_new, Null, "none", out)
            /\ UNCHANGED <<remote, now, scanOrder>>
            /\ UNCHANGED passVars

NextLate == RunQueued(SyncConfig) \/ RunCompletes(SyncConfig) \/ SyncListing(SyncConfig)

SpecLate == InitSync /\ [][NextLate]_vars

\* C22: late-completing runs are persisted.  After an only_new call without
\* a fetch limit that GitHub answered in full and that committed, every
\* listed run whose jobs have completed is persisted, whatever was persisted
\* before it completed.
C22_LateRunsPersisted ==
    (/\ cfg[SyncConfig].data_source = "github_actions"
     /\ ~cfg[SyncConfig].job_name
     /\ synced[SyncConfig] = SyncRecord(TRUE, Null)) =>
        \A it \in Rows(remote[SyncConfig]) :
            it.ts # Null => Persisted(SyncConfig, it)


-----------------------------------------------------------------------------
(* Further properties of the passes (SpecSched) *)

\* C23: last_checked_at records the last successful check.  In a scheduler
\* pass a configuration's last_checked_at differs from the value it had when
\* the pass began only if its attempt returned and _scrape_config called
\* the connector of its data source.
C23_CheckedOnlyOnSuccess ==
    (InPass /\ pass.kind = "scheduler") =>
        \A c \in ConfigIds :
            cfg[c].last_checked_at # pass.checked0[c] =>
                /\ pass.result[c] = "ok"
                /\ SchedulerConnector(cfg[c]).scraper = cfg[c].data_source


\* The database session the attempt of configuration c runs against in a
\* pass: scrape_all_projects opens one session with "async with
\* AsyncSessionLocal() as db" before its loop and hands that db to every
\* _scrape_config; scrape_all_configs is given one db, and the scrape command
\* opens one for all its projects.  A session is named by the pass or the
\* configuration it was opened for.
SessionOf(kind, c) ==
    IF kind \in {"scheduler", "all_configs", "cli"}
    THEN [opened_for |-> "pass", config |-> 0]
    ELSE [opened_for |-> "config", config |-> c]

\* C26: session isolation between sync tasks.  In a scheduler pass two
\* configurations that have been attempted ran against different database
\* sessions.
C26_SessionPerConfig ==
    (InPass /\ pass.kind = "scheduler") =>
        \A c, d \in ConfigIds :
            (c # d /\ pass.result[c] # "none" /\ pass.result[d] # "none") =>
                SessionOf(pass.kind, c) # SessionOf(pass.kind, d)

-----------------------------------------------------------------------------
(* SpecBatch: the loop of scrape_config over the items of one fetch, each   *)
(* item going through the loop body that makes its Build.  remote[1] is the *)
(* fetched list.                                                            *)

BatchLen == 2

\* The raw items of a fetch: the item's native fields and whether it carries
\* commit information (LUCI input.gitilesCommit, Buildkite commit).
BatchItems(kind) ==
    {[status |-> n.status, start |-> n.start, end |-> n.end, created |-> n.created,
      commit |-> cm] :
        n \in {m \in NativeItems(kind) :
                  m.start \in {10, Unparseable} /\ m.end = 45 /\ m.created = 10},
        cm \in IF kind \in {"luci", "buildkite"} THEN BOOLEAN ELSE {TRUE}}

\* The loop body for one item: "if not commit_sha: continue", then Build(...).
MapItem(kind, conf, it) ==
    IF kind \in {"luci", "buildkite"} /\ ~it.commit THEN NoRow("skipped")
    ELSE BuildRecord(kind, conf, it)

\* The loop: an exception raised in the body of one item leaves the loop and
\* scrape_config; builds_to_add is a local of the call.
RECURSIVE MapBatch(_, _, _)
MapBatch(kind, conf, items) ==
    IF items = <<>> THEN [raised |-> FALSE, rows |-> <<>>]
    ELSE LET out == MapItem(kind, conf, Head(items))
         IN  IF out.outcome \notin {"persisted", "skipped"}
             THEN [raised |-> TRUE, rows |-> <<>>]
             ELSE LET rest == MapBatch(kind, conf, Tail(items))
                  IN  IF rest.raised THEN rest
                      ELSE [rest EXCEPT !.rows =
                               (IF out.outcome = "persisted" THEN <<out.row>> ELSE <<>>)
                               \o @]

\* scrape_config over the fetched list, up to its commit.
ScrapeBatch ==
    /\ last.op = "fetched"
    /\ \E out \in {MapBatch(cfg[1].data_source, cfg[1], remote[1])} :
          /\ builds' = out.rows
          /\ cfg' = IF out.raised THEN cfg ELSE [cfg EXCEPT ![1].last_checked_at = now]
          /\ last' = [config |-> 1, op |-> "scraped", raised |-> out.raised]
    /\ UNCHANGED <<remote, now, scanOrder, synced>>
    /\ UNCHANGED passVars

InitBatch ==
    /\ \E kind \in Connectors, jn \in BOOLEAN :
          /\ jn => kind = "github_actions"
          /\ cfg = [c \in Configs |->
                      IF c = 1 THEN ConfigRow(c, kind, TRUE, TRUE, 1, Null, TRUE, jn)
                      ELSE ConfigRow(c, "manual", FALSE, TRUE, 1, Null, FALSE, FALSE)]
          /\ \E items \in [1 .. BatchLen -> BatchItems(kind)] :
                remote = [c \in Configs |-> IF c = 1 THEN items ELSE <<>>]
    /\ builds = <<>>
    /\ now = 1
    /\ scanOrder = "first"
    /\ last = [config |-> 1, op |-> "fetched"]
    /\ synced = [c \in Configs |-> NoSync]
    /\ pass = NoPass
    /\ session = <<>>
    /\ api = NoTrigger
    /\ sched = NoJob
    /\ inflight = {}

NextBatch == ScrapeBatch

SpecBatch == InitBatch /\ [][NextBatch]_vars

\* C25: per-item mapping failure.  After scrape_config has gone over a fetch,
\* every item of the fetch that can be mapped has its Build persisted,
\* whatever the other items of the fetch are: one row for each item whose
\* loop body, taken alone, makes a Build.
C25_ItemFailureSkipsItemOnly ==
    last.op = "scraped" =>
        Len(builds) =
            Cardinality({i \in 1 .. Len(remote[1]) :
                            MapItem(cfg[1].data_source, cfg[1], remote[1][i]).outcome
                                = "persisted"})


-----------------------------------------------------------------------------
(* SpecMixed: one project with two configurations of different data        *)
(* sources, each synced by its own connector.  The remotes number their    *)
(* builds independently, so the two listings carry the same ids.           *)

\* The connectors whose existence check reads scraper_metadata.
MetadataKeyed == {"luci", "buildkite", "koji", "gitlab_ci"}

InitMixed ==
    /\ \E a, b \in MetadataKeyed :
          /\ a # b
          /\ cfg = [c \in Configs |->
                      ConfigRow(1, IF c = 1 THEN a ELSE b, TRUE, TRUE, 1, Null, TRUE, FALSE)]
    /\ remote = [c \in Configs |-> <<>>]
    /\ builds = <<>>
    /\ now = 1
    /\ scanOrder = "first"
    /\ last = NoCall
    /\ synced = [c \in Configs |-> NoSync]
    /\ pass = NoPass
    /\ session = <<>>
    /\ api = NoTrigger
    /\ sched = NoJob
    /\ inflight = {}

NextMixed == \E c \in Configs : PublishNewest(c) \/ SyncListing(c)

SpecMixed == InitMixed /\ [][NextMixed]_vars

\* C27: no cross-source suppression.  After a call of a configuration's
\* connector over its whole listing with only_new off, answered in full and
\* committed, every item of that listing is persisted as a row of the
\* configuration's data source, whatever rows the project's other data
\* source has.
C27_NoCrossSourceSuppression ==
    \A c \in Configs :
        synced[c] = SyncRecord(FALSE, Null) =>
            \A it \in Rows(remote[c]) : Persisted(c, it)


-----------------------------------------------------------------------------
(* SpecBackfill: the commit-message backfill (scraper_utils.py              *)
(* backfill_luci_commit_messages, cli/backfill_commits.py backfill_project) *)
(* over the builds of one project.  A row carries commit_sha,               *)
(* commit_message (None: NULL, "remote": what the connector stored, "git":  *)
(* the subject line git log gives) and updated_at; remote[1] lists the      *)
(* commits of the local repository.                                         *)

BackfillLen == 2

NumShas == 2

Shas == 1 .. NumShas

\* The rows connectors have written: GitHub Actions stores
\* run["head_commit"]["message"][:500], never NULL; LUCI stores
\* gitilesCommit.get("message"), NULL when the build input has none.
BackfillRows ==
    {r \in [project_id : {1}, data_source : {"github_actions", "luci"},
            commit_sha : Shas, commit_message : {None, Some("remote")},
            updated_at : {Null}] :
        r.data_source = "github_actions" => r.commit_message # None}

\* "select(Build.commit_sha).where(project_id, commit_message IS NULL,
\* commit_sha IS NOT NULL [, data_source == LUCI])", deduplicated.
CommitsWithoutMessage(rows, luci_only) ==
    {r.commit_sha : r \in {x \in Rows(rows) :
                              /\ x.project_id = 1
                              /\ x.commit_message = None
                              /\ luci_only => x.data_source = "luci"}}

\* get_commit_messages_batch and "if msg": the commits git log knows.
ValidUpdates(shas, repo) == shas \cap Rows(repo)

\* UPDATE builds SET commit_message = v.message, updated_at = NOW()
\* FROM (VALUES ...) AS v(sha, message)
\* WHERE builds.commit_sha = v.sha AND builds.project_id = <id>
UpdateBuilds(rows, updates, t) ==
    [i \in 1 .. Len(rows) |->
        IF rows[i].commit_sha \in updates /\ rows[i].project_id = 1
        THEN [rows[i] EXCEPT !.commit_message = Some("git"), !.updated_at = t]
        ELSE rows[i]]

\* One run of the backfill: backfill_project (luci_only off) or
\* backfill_luci_commit_messages (luci_only on).
Backfill(luci_only) ==
    /\ last.runs[luci_only] < 2
    /\ LET updates == ValidUpdates(CommitsWithoutMessage(builds, luci_only), remote[1])
       IN  /\ builds' = UpdateBuilds(builds, updates, now)
           /\ last' = [config |-> 0, op |-> "backfill", luci_only |-> luci_only,
                       before |-> builds,
                       runs |-> [last.runs EXCEPT ![luci_only] = @ + 1]]
    /\ UNCHANGED <<cfg, remote, now, scanOrder, synced>>
    /\ UNCHANGED passVars

InitBackfill ==
    /\ cfg = [c \in Configs |-> ConfigRow(1, "luci", TRUE, TRUE, 1, Null, TRUE, FALSE)]
    /\ \E repo \in {<<>>, <<1>>, <<1, 2>>} :
          remote = [c \in Configs |-> IF c = 1 THEN repo ELSE <<>>]
    /\ builds \in [1 .. BackfillLen -> BackfillRows]
    /\ now = 1
    /\ scanOrder = "first"
    /\ last = [config |-> 0, op |-> "none", runs |-> [b \in BOOLEAN |-> 0]]
    /\ synced = [c \in Configs |-> NoSync]
    /\ pass = NoPass
    /\ session = <<>>
    /\ api = NoTrigger
    /\ sched = NoJob
    /\ inflight = {}

NextBackfill == Tick \/ \E luci_only \in BOOLEAN : Backfill(luci_only)

SpecBackfill == InitBackfill /\ [][NextBackfill]_vars

\* C29: records are write-once.  A run of the backfill leaves every row
\* whose commit_message was not NULL exactly as it was, changes nothing but
\* commit_message and updated_at in the others, and a second run of the same
\* backfill against the same repository changes no row.
C29_BackfillFillsNullOnly ==
    last.op = "backfill" =>
        /\ Len(builds) = Len(last.before)
        /\ \A i \in 1 .. Len(builds) :
              /\ last.before[i].commit_message # None => builds[i] = last.before[i]
              /\ builds[i] = [last.before[i] EXCEPT
                                 !.commit_message = builds[i].commit_message,
                                 !.updated_at = builds[i].updated_at]
        /\ last.runs[last.luci_only] = 2 => builds = last.before


-----------------------------------------------------------------------------
(* SpecMissing: the passes of SpecSched over a table whose first            *)
(* configuration has no row in the table of its source (no                  *)
(* github_actions_config, luci_config, buildkite_config, koji_config or     *)
(* obs_config); the second is a complete GitHub Actions configuration.      *)

InitMissing ==
    /\ \E src \in Connectors :
          cfg = [c \in Configs |->
                    IF c = 1
                    THEN ConfigRow(c, src, TRUE, TRUE, 1, Null, FALSE, FALSE)
                    ELSE ConfigRow(c, "github_actions", TRUE, TRUE, 1, Null, TRUE, FALSE)]
    /\ remote = [c \in Configs |-> Published(cfg[c].data_source, InitialItems)]
    /\ builds = <<>>
    /\ now = 1
    /\ scanOrder \in {"first", "last"}
    /\ last = NoCall
    /\ synced = [c \in Configs |-> NoSync]
    /\ pass = NoPass
    /\ session = <<>>
    /\ api = NoTrigger
    /\ sched = Started(NoJob, 1)
    /\ inflight = {}

SpecMissing == InitMissing /\ [][NextSched]_vars

\* Whether the pass calls scrape_config for c: the scheduler has no branch
\* for some data sources and raises before the call in others.
CallsConnector(c) ==
    pass.kind = "scheduler" => SchedulerConnector(cfg[c]).scraper = cfg[c].data_source

\* C30: a configuration error is local and free of side effects.  When a pass
\* has called scrape_config for a configuration that lacks the row of its
\* source, the call raised without a request to the remote, the pass has
\* written no row for it and its last_checked_at is the one it had when the
\* pass began; and when the pass is over the other configurations it had to
\* attempt have been attempted.
C30_ConfigErrorIsLocal ==
    InPass =>
        \A c \in ConfigIds :
            (~cfg[c].locator /\ pass.result[c] # "none" /\ CallsConnector(c)) =>
                /\ pass.result[c] = "raised"
                /\ pass.persisted[c] = 0
                /\ cfg[c].last_checked_at = pass.checked0[c]
                /\ \A fail \in FailModes(cfg[c].data_source) :
                      Dispatch(pass, cfg[c], remote[c], fail, builds, scanOrder).pages = <<>>
                /\ (pass.phase = "done" /\ ~pass.error) =>
                      \A d \in ConfigIds \ {c} :
                          (/\ cfg[d].is_enabled /\ cfg[d].is_active
                           /\ pass.kind = "all_configs" => cfg[d].data_source = pass.source
                           /\ pass.kind # "cli" => d \in pass.wasDue)
                          => pass.tries[d] = 1

\* C30 witness: a finished pass in which the configuration without its
\* source row raised and the complete one after it persisted rows.
C30_Witness ==
    /\ InPass /\ pass.phase = "done" /\ scanOrder = "first"
    /\ ~cfg[1].locator /\ pass.result[1] = "raised" /\ CallsConnector(1)
    /\ cfg[1].last_checked_at = Null
    /\ pass.result[2] = "ok" /\ pass.persisted[2] > 0

-----------------------------------------------------------------------------
(* SpecFilter: _filter_build_jobs (scrapers/github_actions.py), the filter  *)
(* scrape_config applies to the jobs of a run when the configuration has no *)
(* job_name.  A job name is the sequence of its characters.                 *)

exclude_patterns ==
    {
     \* lint
     <<"l", "i", "n", "t">>,
     \* linting
     <<"l", "i", "n", "t", "i", "n", "g">>,
     \* format
     <<"f", "o", "r", "m", "a", "t">>,
     \* formatting
     <<"f", "o", "r", "m", "a", "t", "t", "i", "n", "g">>,
     \* prettier
     <<"p", "r", "e", "t", "t", "i", "e", "r">>,
     \* eslint
     <<"e", "s", "l", "i", "n", "t">>,
     \* flake8
     <<"f", "l", "a", "k", "e", "8">>,
     \* mypy
     <<"m", "y", "p", "y">>,
     \* type-check
     <<"t", "y", "p", "e", "-", "c", "h", "e", "c", "k">>,
     \* type check
     <<"t", "y", "p", "e", " ", "c", "h", "e", "c", "k">>,
     \* clippy
     <<"c", "l", "i", "p", "p", "y">>,
     \* rustfmt
     <<"r", "u", "s", "t", "f", "m", "t">>,
     \* spell
     <<"s", "p", "e", "l", "l">>,
     \* spellcheck
     <<"s", "p", "e", "l", "l", "c", "h", "e", "c", "k">>,
     \* style check
     <<"s", "t", "y", "l", "e", " ", "c", "h", "e", "c", "k">>,
     \* code style
     <<"c", "o", "d", "e", " ", "s", "t", "y", "l", "e">>,
     \* dead-code
     <<"d", "e", "a", "d", "-", "c", "o", "d", "e">>,
     \* unused
     <<"u", "n", "u", "s", "e", "d">>,
     \* documentation only
     <<"d", "o", "c", "u", "m", "e", "n", "t", "a", "t", "i", "o", "n", " ", "o", "n", "l", "y">>,
     \* docs only
     <<"d", "o", "c", "s", " ", "o", "n", "l", "y">>,
     \* generate docs
     <<"g", "e", "n", "e", "r", "a", "t", "e", " ", "d", "o", "c", "s">>,
     \* code formatting
     <<"c", "o", "d", "e", " ", "f", "o", "r", "m", "a", "t", "t", "i", "n", "g">>}

\* Names of the jobs of a run.
JobNames ==
    {
     \* build
     <<"b", "u", "i", "l", "d">>,
     \* Lint
     <<"L", "i", "n", "t">>,
     \* test (clippy)
     <<"t", "e", "s", "t", " ", "(", "c", "l", "i", "p", "p", "y", ")">>}

\* started_at of a job: missing, a text that does not parse, or a time.
JobStart == 30

\* completed_at of a job: missing, not parseable, or a time one second less
\* than ShortJob after the start, or ShortJob after it.
JobEnds == {Null, Unparseable, JobStart + ShortJob - 1, JobStart + ShortJob}

Jobs ==
    [name : JobNames, started_at : {Null, Unparseable, JobStart},
     completed_at : JobEnds, conclusion : {"success", "failure"}]

\* the length of the jobs list of a run
MaxJobs == 2

JobLists == UNION {[1 .. n -> Jobs] : n \in 0 .. MaxJobs}

\* The body of the loop of _filter_build_jobs: the job is left out.
FilteredOut_AtMost(job) ==
    LET job_name == Lower(job.name)
        duration == calculate_duration(job.started_at, job.completed_at)
    IN  \/ \E pattern \in exclude_patterns : Contains(job_name, pattern)
        \/ duration # None /\ duration[1] <= ShortJob /\ job.conclusion = "success"
        \/ job.started_at = Null
        \/ job.completed_at = Null

\* The body of the loop of _filter_build_jobs: the job is left out ("continue").
FilteredOut(job) ==
    LET job_name == Lower(job.name)
        duration == calculate_duration(job.started_at, job.completed_at)
    IN  \/ \E pattern \in exclude_patterns : Contains(job_name, pattern)
        \/ duration # None /\ duration[1] < ShortJob /\ job.conclusion = "success"
        \/ job.started_at = Null
        \/ job.completed_at = Null

filter_build_jobs(jobs) == SelectSeq(jobs, LAMBDA job : ~FilteredOut(job))

\* The jobs of one run go through the filter.
FilterBuildJobs ==
    /\ last.op = "jobs"
    /\ last' = [config |-> 0, op |-> "filtered", jobs |-> last.jobs,
                filtered_jobs |-> filter_build_jobs(last.jobs)]
    /\ UNCHANGED <<cfg, remote, builds, now, scanOrder, synced>>
    /\ UNCHANGED passVars

InitFilter ==
    /\ \E jobs \in JobLists : last = [config |-> 0, op |-> "jobs", jobs |-> jobs]
    /\ cfg = [c \in Configs |-> ConfigRow(c, "github_actions", TRUE, TRUE, 1, Null, TRUE, FALSE)]
    /\ remote = [c \in Configs |-> <<>>]
    /\ builds = <<>>
    /\ now = 1
    /\ scanOrder = "first"
    /\ synced = [c \in Configs |-> NoSync]
    /\ pass = NoPass
    /\ session = <<>>
    /\ api = NoTrigger
    /\ sched = NoJob
    /\ inflight = {}

NextFilter == FilterBuildJobs

SpecFilter == InitFilter /\ [][NextFilter]_vars

Filtered == "op" \in DOMAIN last /\ last.op = "filtered"

\* The name, read without regard to case, has one of the excluded words.
ExcludedName(job) == \E pattern \in exclude_patterns : Contains(Lower(job.name), pattern)

\* The job has both times.
HasTimes(job) == job.started_at # Null /\ job.completed_at # Null

\* The job has a duration, and it is below ShortJob seconds.
Short(job) ==
    /\ job.started_at \notin {Null, Unparseable}
    /\ job.completed_at \notin {Null, Unparseable}
    /\ job.completed_at - job.started_at < ShortJob

\* C32: GitHub Actions job filtering.  The filter returns the jobs it was
\* given, in their order, without exactly those whose lower-cased name
\* contains an exclusion pattern, those with conclusion "success" and a
\* duration below 15 seconds, and those lacking started_at or completed_at; a
\* job whose conclusion is not "success" is in the result whatever its
\* duration when its name is not excluded and it has both times, and so is a
\* successful job of exactly 15 seconds.
C32_JobFilter ==
    Filtered =>
        /\ last.filtered_jobs =
              SelectSeq(last.jobs,
                        LAMBDA job : ~(\/ ExcludedName(job)
                                       \/ job.conclusion = "success" /\ Short(job)
                                       \/ ~HasTimes(job)))
        /\ \A i \in 1 .. Len(last.jobs) :
              LET job == last.jobs[i]
                  kept == \E k \in 1 .. Len(last.filtered_jobs) : last.filtered_jobs[k] = job
              IN  /\ (job.conclusion # "success" /\ ~ExcludedName(job) /\ HasTimes(job)) => kept
                  /\ (/\ job.conclusion = "success" /\ ~ExcludedName(job)
                      /\ job.started_at = JobStart
                      /\ job.completed_at = JobStart + 15) => kept

\* C32 witness: a run with a failed job of 14 seconds and a successful job of
\* 14 seconds, both named "build", has gone through the filter, which kept the
\* failed one only.
C32_Witness ==
    /\ Filtered
    /\ Len(last.jobs) = 2 /\ Len(last.filtered_jobs) = 1
    /\ \A i \in 1 .. 2 : ~ExcludedName(last.jobs[i]) /\ Short(last.jobs[i])
    /\ last.jobs[1].conclusion = "failure" /\ last.jobs[2].conclusion = "success"
    /\ last.filtered_jobs[1] = last.jobs[1]

-----------------------------------------------------------------------------
(* SpecStars: the star update (cli/update_stars.py).  last holds the run:   *)
(* the project list, the position of the loop, the stars column of each     *)
(* project, the requests made for each project and the count of updates.    *)

\* the length of project_list
NumStarProjects == 3

StarProjects == 1 .. NumStarProjects

\* raise_for_status passes
Ok == 200

NotFound == 404

RateLimited == 403

ServerError == 500

\* no response at all: client.get raises httpx.RequestError
NoResponse == 0

Responses == {Ok, NotFound, RateLimited, ServerError, NoResponse}

\* update_project_stars for a rate-limited project, without the raise.
update_project_stars_NoRaise(project, force) ==
    IF ~force /\ ~project.github
    THEN [fetched |-> FALSE, written |-> FALSE, result |-> "False"]
    ELSE IF project.response = Ok
    THEN [fetched |-> TRUE, written |-> TRUE, result |-> "True"]
    ELSE [fetched |-> TRUE, written |-> FALSE, result |-> "False"]

\* update_project_stars: whether the API was asked, whether the stars column
\* was written and committed, and the value returned or the exception raised.
update_project_stars(project, force) ==
    IF ~force /\ ~project.github
    THEN [fetched |-> FALSE, written |-> FALSE, result |-> "False"]
    ELSE IF project.response = Ok
    THEN [fetched |-> TRUE, written |-> TRUE, result |-> "True"]
    ELSE IF project.response = RateLimited
    THEN [fetched |-> TRUE, written |-> FALSE, result |-> "HTTPStatusError"]
    ELSE [fetched |-> TRUE, written |-> FALSE, result |-> "False"]

\* One turn of the loop of main.run over project_list; an exception out of
\* update_project_stars leaves the loop.  The stars of project i are i.
UpdateNextProject ==
    /\ last.op = "stars"
    /\ last.next <= NumStarProjects
    /\ LET i == last.next
       IN  \E out \in {update_project_stars(last.project_list[i], last.force)} :
              last' = [last EXCEPT
                         !.next = IF out.result = "HTTPStatusError"
                                  THEN NumStarProjects + 1 ELSE i + 1,
                         !.stopped = out.result = "HTTPStatusError",
                         !.fetches[i] = IF out.fetched THEN @ + 1 ELSE @,
                         !.stars[i] = IF out.written THEN i ELSE @,
                         !.updated = IF out.result = "True" THEN @ + 1 ELSE @]
    /\ UNCHANGED <<cfg, remote, builds, now, scanOrder, synced>>
    /\ UNCHANGED passVars

\* After the loop: "Star update complete!"
StarUpdateComplete ==
    /\ last.op = "stars"
    /\ last.next > NumStarProjects
    /\ last' = [last EXCEPT !.op = "complete"]
    /\ UNCHANGED <<cfg, remote, builds, now, scanOrder, synced>>
    /\ UNCHANGED passVars

InitStars ==
    /\ \E force \in BOOLEAN,
          project_list \in [StarProjects -> [github : BOOLEAN, response : Responses]] :
          last = [config |-> 0, op |-> "stars", force |-> force,
                  project_list |-> project_list, next |-> 1, stopped |-> FALSE,
                  fetches |-> [i \in StarProjects |-> 0],
                  stars |-> [i \in StarProjects |-> 0], updated |-> 0]
    /\ cfg = [c \in Configs |-> ConfigRow(c, "github_actions", TRUE, TRUE, 1, Null, TRUE, FALSE)]
    /\ remote = [c \in Configs |-> <<>>]
    /\ builds = <<>>
    /\ now = 1
    /\ scanOrder = "first"
    /\ synced = [c \in Configs |-> NoSync]
    /\ pass = NoPass
    /\ session = <<>>
    /\ api = NoTrigger
    /\ sched = NoJob
    /\ inflight = {}

NextStars == UpdateNextProject \/ StarUpdateComplete

SpecStars == InitStars /\ [][NextStars]_vars

InStarRun == "op" \in DOMAIN last /\ last.op \in {"stars", "complete"}

\* The project was asked for and the answer was 403.
Got403(i) == last.fetches[i] > 0 /\ last.project_list[i].response = 403

\* The project is one the run asks the API for.
Asked(i) == last.force \/ last.project_list[i].github

\* C33: rate-limit stop-and-report.  No project is asked for twice.  Once a
\* project has answered 403 the loop has ended: no later project of the list
\* has been asked for or written, and the projects updated before it keep
\* their stars.  When the run is complete, every project the run asks for
\* with no 403 before it in the list has been asked for once, whatever the
\* projects before it answered (404, another status, no response), and has
\* its stars exactly when its answer was 200.
C33_RateLimitStops ==
    InStarRun =>
        /\ \A i \in StarProjects : last.fetches[i] <= 1
        /\ \A i \in StarProjects :
              Got403(i) =>
                  /\ last.next > NumStarProjects
                  /\ \A j \in StarProjects :
                        j > i => last.fetches[j] = 0 /\ last.stars[j] = 0
        /\ \A i \in StarProjects :
              (last.fetches[i] = 1 /\ last.project_list[i].response = 200)
                  <=> last.stars[i] = i
        /\ \A i \in StarProjects : last.stars[i] \in {0, i}
        /\ last.op = "complete" =>
              \A i \in StarProjects :
                  last.fetches[i] = 1 <=>
                      (Asked(i) /\ \A k \in StarProjects : k < i => ~Got403(k))

\* C33 witness: the run is complete; the first project was updated, the
\* second answered 403, and the third, a GitHub project, was not asked for.
C33_Witness ==
    /\ InStarRun /\ last.op = "complete"
    /\ last.stars[1] = 1
    /\ Got403(2)
    /\ last.project_list[3].github /\ last.project_list[3].response = 200
    /\ last.fetches[3] = 0 /\ last.stars[3] = 0

-----------------------------------------------------------------------------
(* SpecCache: the response cache (cache.py) under the reads that fill it    *)
(* and the writes that invalidate it (api/builds.py, api/leaderboard.py,    *)
(* api/projects.py).  A key is the sequence of its characters; last.keys is *)
(* the set of keys the store holds.                                         *)

KeyText ==
    [leaderboard |-> <<"l", "e", "a", "d", "e", "r", "b", "o", "a", "r", "d">>,
     project |-> <<"p", "r", "o", "j", "e", "c", "t">>,
     timeseries |-> <<"t", "i", "m", "e", "s", "e", "r", "i", "e", "s">>,
     platform |-> <<"p", "l", "a", "t", "f", "o", "r", "m">>,
     category |-> <<"c", "a", "t", "e", "g", "o", "r", "y">>,
     branch |-> <<"b", "r", "a", "n", "c", "h">>]

\* ids of the projects
CacheProjects == {1, 12}

\* str(project_id)
Digits == <<"0", "1", "2", "3", "4", "5", "6", "7", "8", "9">>

RECURSIVE Str(_)
Str(n) == IF n < 10 THEN <<Digits[n + 1]>> ELSE Str(n \div 10) \o <<Digits[(n % 10) + 1]>>

\* A filter of a request: not given (the empty text stands for None, both
\* are false in "if platform:") or a value.
Platforms == {<<>>, <<"m", "a", "c", "o", "s", "-", "l", "a", "t", "e", "s", "t">>}

Categories == {<<>>, <<"c", "o", "m", "p", "i", "l", "e", "r">>}

Branches == {<<>>, <<"m", "a", "i", "n">>}

\* The filters of a timeseries request: none, or platform and branch.
TimeseriesFilters == {f \in Platforms \X Branches : (f[1] = <<>>) <=> (f[2] = <<>>)}

\* ":".join(parts)
RECURSIVE JoinColon(_)
JoinColon(parts) ==
    IF Len(parts) = 1 THEN parts[1]
    ELSE parts[1] \o <<":">> \o JoinColon(Tail(parts))

leaderboard_key(platform, category) ==
    JoinColon(<<KeyText.leaderboard>>
              \o (IF platform # <<>> THEN <<KeyText.platform \o <<":">> \o platform>> ELSE <<>>)
              \o (IF category # <<>> THEN <<KeyText.category \o <<":">> \o category>> ELSE <<>>))

project_key(project_id) == KeyText.project \o <<":">> \o Str(project_id)

project_timeseries_key(project_id, platform, branch) ==
    JoinColon(<<KeyText.project \o <<":">> \o Str(project_id) \o <<":">> \o KeyText.timeseries>>
              \o (IF platform # <<>> THEN <<KeyText.platform \o <<":">> \o platform>> ELSE <<>>)
              \o (IF branch # <<>> THEN <<KeyText.branch \o <<":">> \o branch>> ELSE <<>>))

\* redis.scan_iter(prefix + "*"): the keys that begin with the prefix.
scan_iter(keys, prefix) ==
    {key \in keys : Len(key) >= Len(prefix) /\ SubSeq(key, 1, Len(prefix)) = prefix}

\* delete_pattern(prefix + "*"): the keys left in the store.
delete_pattern(keys, prefix) == keys \ scan_iter(keys, prefix)

\* delete_pattern(f"project:{project_id}:*")
invalidate_project(keys, project_id) ==
    delete_pattern(keys, KeyText.project \o <<":">> \o Str(project_id) \o <<":">>)

\* delete_pattern("leaderboard:*")
invalidate_leaderboard(keys) == delete_pattern(keys, KeyText.leaderboard \o <<":">>)

invalidate_project_and_leaderboard(keys, project_id) ==
    invalidate_leaderboard(invalidate_project(keys, project_id))

\* the rows of builds the API may hold
MaxBuilds == 2

CacheRead(key) ==
    /\ last.op \in {"cache", "read", "create_build", "delete_build"}
    /\ last' = [config |-> 0, op |-> "read", project |-> 0,
                before |-> {}, keys |-> last.keys \cup {key}]
    /\ UNCHANGED <<cfg, remote, builds, now, scanOrder, synced>>
    /\ UNCHANGED passVars

\* GET /leaderboard: a miss computes the answer and stores it under the key.
get_leaderboard == \E platform \in Platforms, category \in Categories :
    CacheRead(leaderboard_key(platform, category))

\* GET /projects/{id}
get_project == \E project_id \in CacheProjects : CacheRead(project_key(project_id))

\* GET /projects/{id}/timeseries
get_project_timeseries ==
    \E project_id \in CacheProjects, f \in TimeseriesFilters :
        CacheRead(project_timeseries_key(project_id, f[1], f[2]))

\* POST /builds
create_build ==
    /\ last.op \in {"cache", "read", "create_build", "delete_build"}
    /\ Len(builds) < MaxBuilds
    /\ \E project_id \in CacheProjects :
          /\ builds' = Append(builds, [project_id |-> project_id])
          /\ last' = [config |-> 0, op |-> "create_build", project |-> project_id,
                      before |-> last.keys,
                      keys |-> invalidate_project_and_leaderboard(last.keys, project_id)]
    /\ UNCHANGED <<cfg, remote, now, scanOrder, synced>>
    /\ UNCHANGED passVars

\* DELETE /builds/{build_id}
delete_build ==
    /\ last.op \in {"cache", "read", "create_build", "delete_build"}
    /\ \E build_id \in 1 .. Len(builds) :
          LET project_id == builds[build_id].project_id
          IN  /\ builds' = SubSeq(builds, 1, build_id - 1)
                              \o SubSeq(builds, build_id + 1, Len(builds))
              /\ last' = [config |-> 0, op |-> "delete_build", project |-> project_id,
                          before |-> last.keys,
                          keys |-> invalidate_project_and_leaderboard(last.keys, project_id)]
    /\ UNCHANGED <<cfg, remote, now, scanOrder, synced>>
    /\ UNCHANGED passVars

InitCache ==
    /\ last = [config |-> 0, op |-> "cache", project |-> 0, before |-> {}, keys |-> {}]
    /\ cfg = [c \in Configs |-> ConfigRow(c, "manual", FALSE, TRUE, 1, Null, FALSE, FALSE)]
    /\ remote = [c \in Configs |-> <<>>]
    /\ builds = <<>>
    /\ now = 1
    /\ scanOrder = "first"
    /\ synced = [c \in Configs |-> NoSync]
    /\ pass = NoPass
    /\ session = <<>>
    /\ api = NoTrigger
    /\ sched = NoJob
    /\ inflight = {}

NextCache ==
    \/ get_leaderboard
    \/ get_project
    \/ get_project_timeseries
    \/ create_build
    \/ delete_build

SpecCache == InitCache /\ [][NextCache]_vars

Wrote == "op" \in DOMAIN last /\ last.op \in {"create_build", "delete_build"}

\* The keys the key generators give for the project, and for the leaderboard.
KeysOfProject(project_id) ==
    {project_key(project_id)}
        \cup {project_timeseries_key(project_id, platform, branch) :
                 platform \in Platforms, branch \in Branches}

LeaderboardKeys ==
    {leaderboard_key(platform, category) : platform \in Platforms, category \in Categories}

\* C34: write-invalidated cache.  When create_build or delete_build for a
\* project has returned, the cache holds no leaderboard key (with or without
\* filters), not the project's key and none of its timeseries keys, and every
\* entry of another project that was there before is still there.
C34_WriteInvalidates ==
    Wrote =>
        /\ last.keys \cap LeaderboardKeys = {}
        /\ last.keys \cap KeysOfProject(last.project) = {}
        /\ \A other \in CacheProjects \ {last.project} :
              last.before \cap KeysOfProject(other) \subseteq last.keys

-----------------------------------------------------------------------------
(* The summary of a pass (SpecSched) *)

BatchPassDone == pass.phase = "done" /\ pass.kind \in {"all_configs", "cli"}

\* The configurations of the pass whose attempt ended the given way.
Ended(how) == {c \in ConfigIds : pass.result[c] = how}

\* C35: per-pass summary.  At the end of a pass of scrape_all_configs or of
\* the scrape command total_builds is the sum of the counts returned by the
\* configurations whose attempt returned, the error counter is the number of
\* configurations whose attempt raised, and every configuration attempted was
\* attempted once and ended one of the two ways; the command's successful
\* counter is the number that returned, so that successful and failed
\* together are the number attempted.
C35_PassSummary ==
    BatchPassDone =>
        /\ pass.summary.total_builds =
              Accumulated([c \in ConfigIds |->
                              IF c \in Ended("ok") THEN pass.count[c] ELSE 0], NumConfigs)
        /\ pass.summary.errors = Cardinality(Ended("raised"))
        /\ \A c \in ConfigIds :
              /\ pass.tries[c] <= 1
              /\ pass.tries[c] = 1 <=> c \in Ended("ok") \cup Ended("raised")
        /\ pass.kind = "cli" =>
              /\ pass.summary.successful = Cardinality(Ended("ok"))
              /\ pass.summary.successful + pass.summary.errors =
                    Cardinality({c \in ConfigIds : pass.tries[c] = 1})

\* C35 witness: a pass of the scrape command has ended with one
\* configuration that raised and one that returned rows.
C35_Witness ==
    /\ BatchPassDone /\ pass.kind = "cli"
    /\ Ended("raised") # {} /\ Ended("ok") # {}
    /\ pass.summary.total_builds > 0
    /\ pass.summary.errors = 1 /\ pass.summary.successful = 1

-----------------------------------------------------------------------------
(* SpecLifecycle: start_scheduler, shutdown_scheduler and GET               *)
(* /scheduler/status called in any order while the clock advances.  last    *)
(* holds the call made last, the scheduler as it was before it, the last    *)
(* call made in the state it is meant for, and the answer of the status     *)
(* query.                                                                   *)

start_Unguarded(s, t) == Started(s, t)

\* ScraperScheduler.start at time t
start(s, t) == IF s.is_running THEN s ELSE Started(s, t)

\* ScraperScheduler.shutdown.  cleared: whether the library's shutdown
\* empties the job store.
shutdown(s, cleared) ==
    IF ~s.is_running THEN s
    ELSE [s EXCEPT !.is_running = FALSE,
                   !.jobs = IF cleared THEN {} ELSE @,
                   !.next_run_time = IF cleared THEN Null ELSE @]

\* GET /scheduler/status
get_scheduler_status(s) ==
    IF ~s.is_running
    THEN [status |-> "stopped", is_running |-> FALSE, jobs |-> {}]
    ELSE [status |-> "running", is_running |-> TRUE, jobs |-> s.jobs]

NoStatus == [status |-> "none", is_running |-> FALSE, jobs |-> {}]

StartScheduler ==
    /\ last.op \in {"constructed", "start", "shutdown", "status"}
    /\ sched' = start(sched, now)
    /\ last' = [last EXCEPT !.op = "start", !.before = sched,
                            !.effective = IF sched.is_running THEN @ ELSE "start"]
    /\ UNCHANGED <<cfg, remote, builds, now, scanOrder, synced, pass, session, api, inflight>>

ShutdownScheduler ==
    /\ last.op \in {"constructed", "start", "shutdown", "status"}
    /\ \E cleared \in BOOLEAN : sched' = shutdown(sched, cleared)
    /\ last' = [last EXCEPT !.op = "shutdown", !.before = sched,
                            !.effective = IF sched.is_running THEN "shutdown" ELSE @]
    /\ UNCHANGED <<cfg, remote, builds, now, scanOrder, synced, pass, session, api, inflight>>

GetSchedulerStatus ==
    /\ last.op \in {"constructed", "start", "shutdown", "status"}
    /\ last' = [last EXCEPT !.op = "status", !.before = sched,
                            !.response = get_scheduler_status(sched)]
    /\ UNCHANGED <<cfg, remote, builds, now, scanOrder, synced, pass, session, api,
                   sched, inflight>>

InitLifecycle ==
    /\ cfg = [c \in Configs |->
                ConfigRow(c, "github_actions", TRUE, TRUE, 1, Null, TRUE, FALSE)]
    /\ remote = [c \in Configs |-> <<>>]
    /\ builds = <<>>
    /\ now = 1
    /\ scanOrder = "first"
    /\ last = [config |-> 0, op |-> "constructed", before |-> NoJob,
               effective |-> "none", response |-> NoStatus]
    /\ synced = [c \in Configs |-> NoSync]
    /\ pass = NoPass
    /\ session = <<>>
    /\ api = NoTrigger
    /\ sched = NoJob
    /\ inflight = {}

NextLifecycle == StartScheduler \/ ShutdownScheduler \/ GetSchedulerStatus \/ TickJob

SpecLifecycle == InitLifecycle /\ [][NextLifecycle]_vars

\* C36: scheduler lifecycle.  A start made while the scheduler was running
\* and a shutdown made while it was stopped have left the scheduler as it
\* was; is_running is true exactly when the last call that was not such a
\* no-op was start; the job store never holds more than one job
\* 'scrape_all_projects', and holds it while the scheduler runs; a status
\* query answers 'stopped' with no jobs exactly when is_running is false, and
\* 'running' with the job otherwise.
C36_Lifecycle ==
    /\ (last.op = "start" /\ last.before.is_running) => sched = last.before
    /\ (last.op = "shutdown" /\ ~last.before.is_running) => sched = last.before
    /\ sched.is_running <=> last.effective = "start"
    /\ Cardinality({j \in sched.jobs : j = "scrape_all_projects"}) <= 1
    /\ sched.is_running => sched.jobs = {"scrape_all_projects"}
    /\ last.op = "status" =>
          /\ (last.response.status = "stopped" /\ last.response.jobs = {})
                <=> ~sched.is_running
          /\ last.response.status = "stopped" <=> ~sched.is_running
          /\ last.response.is_running = sched.is_running
          /\ sched.is_running => last.response.jobs = {"scrape_all_projects"}

\* C36 witness: a start found the scheduler running, started at an earlier
\* time and not at the first moment, and changed nothing.
C36_Witness ==
    /\ last.op = "start" /\ last.before.is_running
    /\ sched.is_running /\ sched.next_run_time < now + interval_hours
    /\ sched.next_run_time > 1 + interval_hours

-----------------------------------------------------------------------------
(* SpecPlatform: parse_platform_from_job (scrapers/gitlab_ci.py).  A job    *)
(* name is the sequence of its characters: a word that names a system, or   *)
(* none, between what a pipeline puts before and after it.                  *)

SystemWords ==
    {
     \* macos
     <<"m", "a", "c", "o", "s">>,
     \* macOS
     <<"m", "a", "c", "O", "S">>,
     \* darwin
     <<"d", "a", "r", "w", "i", "n">>,
     \* Darwin
     <<"D", "a", "r", "w", "i", "n">>,
     \* ubuntu-22.04
     <<"u", "b", "u", "n", "t", "u", "-", "2", "2", ".", "0", "4">>,
     \* Ubuntu-22.04
     <<"U", "b", "u", "n", "t", "u", "-", "2", "2", ".", "0", "4">>,
     \* ubuntu-24.04
     <<"u", "b", "u", "n", "t", "u", "-", "2", "4", ".", "0", "4">>,
     \* ubuntu-latest
     <<"u", "b", "u", "n", "t", "u", "-", "l", "a", "t", "e", "s", "t">>,
     \* windows
     <<"w", "i", "n", "d", "o", "w", "s">>,
     \* Windows
     <<"W", "i", "n", "d", "o", "w", "s">>,
     \* linux
     <<"l", "i", "n", "u", "x">>,
     \* debian
     <<"d", "e", "b", "i", "a", "n">>,
     \* nothing
     <<>>}

Before ==
    {
     \* nothing
     <<>>,
     \* build-
     <<"b", "u", "i", "l", "d", "-">>,
     \* test:
     <<"t", "e", "s", "t", ":">>}

After ==
    {
     \* nothing
     <<>>,
     \* -release
     <<"-", "r", "e", "l", "e", "a", "s", "e">>,
     \* -x64
     <<"-", "x", "6", "4">>}

GitLabJobNames == {b \o w \o a : b \in Before, w \in SystemWords, a \in After}

\* The texts the function looks for.
JobText ==
    [windows |-> <<"w", "i", "n", "d", "o", "w", "s">>,
     win |-> <<"w", "i", "n">>,
     macos |-> <<"m", "a", "c", "o", "s">>,
     darwin |-> <<"d", "a", "r", "w", "i", "n">>,
     ubuntu_22 |-> <<"u", "b", "u", "n", "t", "u", "-", "2", "2">>,
     ubuntu_24 |-> <<"u", "b", "u", "n", "t", "u", "-", "2", "4">>,
     linux |-> <<"l", "i", "n", "u", "x">>,
     debian |-> <<"d", "e", "b", "i", "a", "n">>]

parse_platform_from_job(job_name) ==
    LET job_lower == Lower(job_name)
    IN  IF Contains(job_lower, JobText.windows) \/ Contains(job_lower, JobText.win)
        THEN "windows-latest"
        ELSE IF Contains(job_lower, JobText.macos) \/ Contains(job_lower, JobText.darwin)
        THEN "macos-latest"
        ELSE IF Contains(job_lower, JobText.ubuntu_22) THEN "ubuntu-22.04"
        ELSE IF Contains(job_lower, JobText.ubuntu_24) THEN "ubuntu-24.04"
        ELSE IF Contains(job_lower, JobText.linux) \/ Contains(job_lower, JobText.debian)
        THEN "ubuntu-latest"
        ELSE "ubuntu-latest"

\* The name of one job is parsed.
ParseJobName ==
    /\ last.op = "job"
    /\ last' = [config |-> 0, op |-> "job_platform", job_name |-> last.job_name,
                platform |-> parse_platform_from_job(last.job_name)]
    /\ UNCHANGED <<cfg, remote, builds, now, scanOrder, synced>>
    /\ UNCHANGED passVars

InitPlatform ==
    /\ \E job_name \in GitLabJobNames :
          last = [config |-> 0, op |-> "job", job_name |-> job_name]
    /\ cfg = [c \in Configs |-> ConfigRow(c, "gitlab_ci", TRUE, TRUE, 1, Null, TRUE, FALSE)]
    /\ remote = [c \in Configs |-> <<>>]
    /\ builds = <<>>
    /\ now = 1
    /\ scanOrder = "first"
    /\ synced = [c \in Configs |-> NoSync]
    /\ pass = NoPass
    /\ session = <<>>
    /\ api = NoTrigger
    /\ sched = NoJob
    /\ inflight = {}

NextPlatform == ParseJobName

SpecPlatform == InitPlatform /\ [][NextPlatform]_vars

ParsedJob == "op" \in DOMAIN last /\ last.op = "job_platform"

\* The job name, read without regard to case, has the text in it.
NameHas(text) == Contains(Lower(last.job_name), text)

\* C37: GitLab CI platform inference.  A job name containing "macos" or
\* "darwin" gives MACOS_LATEST, one containing "ubuntu-22" UBUNTU_22_04, one
\* containing "ubuntu-24" UBUNTU_24_04, one containing "windows"
\* WINDOWS_LATEST, and one with none of these UBUNTU_LATEST, whatever the
\* case of the letters.
C37_PlatformFromJobName ==
    ParsedJob =>
        /\ (NameHas(JobText.macos) \/ NameHas(JobText.darwin)) =>
              last.platform = "macos-latest"
        /\ NameHas(JobText.ubuntu_22) => last.platform = "ubuntu-22.04"
        /\ NameHas(JobText.ubuntu_24) => last.platform = "ubuntu-24.04"
        /\ NameHas(JobText.windows) => last.platform = "windows-latest"
        /\ (/\ ~NameHas(JobText.macos) /\ ~NameHas(JobText.darwin)
            /\ ~NameHas(JobText.ubuntu_22) /\ ~NameHas(JobText.ubuntu_24)
            /\ ~NameHas(JobText.windows)) => last.platform = "ubuntu-latest"

=============================================================================
